---- MODULE Spec2Model ----
(***************************************************************************)
(* A model of the execution core of the 80960 emulator (ikle/i960-emu).    *)
(*                                                                         *)
(* The processor (struct i960) is the record o = [r, ip, ac, pc, tc]; the  *)
(* host side of the interface of i960-emu.h is kept next to it: mem is the *)
(* memory image behind i960_read_x / i960_write_x and ev is the list of    *)
(* calls the current instruction made to the host (memory accesses, faults *)
(* and the overflow signal).                                               *)
(*                                                                         *)
(* A uint32_t is kept as the integer of -2^31 .. 2^31 - 1 that has the     *)
(* same 32 bits in two's complement: the bit pattern, and so every result  *)
(* of the C arithmetic, is kept in full width.                             *)
(***************************************************************************)
EXTENDS Integers, Sequences, FiniteSets, TLC

VARIABLES r, ip, ac, pc, tc, mem, ev, hist, left, mp, listing

vars == <<r, ip, ac, pc, tc, mem, ev, hist, left, mp, listing>>

(***************************************************************************)
(* 32-bit words                                                            *)
(***************************************************************************)
Half   == 256 * 256
MaxI32 == 32767 * Half + 65535
MinI32 == (-32768) * Half

Hi(x) == x \div Half
Lo(x) == x % Half

\* the word with high half hi (any integer, reduced mod 2^16) and low half lo
Wrap(hi, lo) == (((hi + 32768) % Half) - 32768) * Half + lo

\* x + y and x - y of uint32_t (mod 2^32)
Add32(x, y) ==
    LET l == Lo(x) + Lo(y)
    IN  Wrap(Hi(x) + Hi(y) + (l \div Half), l % Half)

Sub32(x, y) ==
    LET l == Lo(x) - Lo(y)
    IN  Wrap(Hi(x) - Hi(y) + (l \div Half), l % Half)

\* ~x, x & y, x | y, x ^ y
Not32(x) == (-1) - x

\* bitwise and / xor of two n-bit naturals (n a power of two), by halves
RECURSIVE AndN(_, _, _)
AndN(x, y, n) ==
    IF n = 1 THEN x * y
    ELSE LET m == 2 ^ (n \div 2)
         IN  AndN(x \div m, y \div m, n \div 2) * m + AndN(x % m, y % m, n \div 2)

RECURSIVE XorN(_, _, _)
XorN(x, y, n) ==
    IF n = 1 THEN (x + y) % 2
    ELSE LET m == 2 ^ (n \div 2)
         IN  XorN(x \div m, y \div m, n \div 2) * m + XorN(x % m, y % m, n \div 2)

And32(x, y) ==
    Wrap(AndN(Hi(x) % Half, Hi(y) % Half, 16), AndN(Lo(x), Lo(y), 16))

Or32(x, y) == Not32(And32(Not32(x), Not32(y)))

Xor32(x, y) ==
    Wrap(XorN(Hi(x) % Half, Hi(y) % Half, 16), XorN(Lo(x), Lo(y), 16))

\* (int32_t) x >> n for 0 <= n <= 31
Sar32(x, n) == IF n < 31 THEN x \div (2 ^ n) ELSE IF x < 0 THEN -1 ELSE 0

\* x >> n of uint32_t for 0 <= n <= 31
Shr32(x, n) ==
    IF n = 0 THEN x
    ELSE IF x >= 0 THEN (x \div 2) \div (2 ^ (n - 1))
    ELSE ((x \div 2) + 2 ^ 30 + 2 ^ 30) \div (2 ^ (n - 1))

\* x << n of uint32_t for 0 <= n <= 31
Shl32(x, n) ==
    IF n >= 16 THEN Wrap((Lo(x) * (2 ^ (n - 16))) % Half, 0)
    ELSE LET l == Lo(x) * (2 ^ n)
         IN  Wrap(Hi(x) * (2 ^ n) + (l \div Half), l % Half)

\* a < b of uint32_t, and of int32_t
ULt(a, b) == IF (a < 0) = (b < 0) THEN a < b ELSE b < 0
SLt(a, b) == a < b

(***************************************************************************)
(* i960-emu.h: register aliases and control register bits                  *)
(***************************************************************************)
I960_PFP     == 0
I960_SP      == 1
I960_RIP     == 2
I960_LP      == 30
I960_FP      == 31
I960_CC_MASK == 7
I960_OF_POS  == 8
I960_OM_POS  == 12
I960_EM_POS  == 1

(***************************************************************************)
(* i960-emu-bits.h                                                         *)
(***************************************************************************)
u32_bit_select(x, pos) == Sar32(x, pos % 32) % 2

u32_bit_mask(pos) == Shl32(1, pos % 32)

\* count < 32: a shift of a uint32_t by 32 or more has no defined result
u32_extract(x, pos, count) ==
    And32(Shr32(x, pos % 32), IF count = 31 THEN MaxI32 ELSE (2 ^ count) - 1)

(***************************************************************************)
(* The host side of i960-emu.h.  Memory is an array of bytes, a word is    *)
(* its four bytes in little-endian order; mem holds the bytes written so   *)
(* far and InitByte the image the run started with.  i960_fault posts the  *)
(* fault and returns.                                                      *)
(***************************************************************************)
InitByte(addr) == (5 * (addr % 256) + 1) % 256

MemByte(m, addr) == IF addr \in DOMAIN m THEN m[addr] ELSE InitByte(addr)

PutByte(m, addr, x) ==
    [k \in DOMAIN m \cup {addr} |-> IF k = addr THEN x % 256 ELSE m[k]]

ReadB(m, addr) == MemByte(m, addr)

ReadS(m, addr) == MemByte(m, addr) + 256 * MemByte(m, Add32(addr, 1))

ReadW(m, addr) == Wrap(ReadS(m, Add32(addr, 2)), ReadS(m, addr))

WriteB(m, addr, x) == PutByte(m, addr, x)

WriteS(m, addr, x) == PutByte(PutByte(m, addr, x), Add32(addr, 1), Sar32(x, 8))

WriteW(m, addr, x) == WriteS(WriteS(m, addr, x), Add32(addr, 2), Sar32(x, 16))

Event(o, kind, addr, x) == [o EXCEPT !.ev = Append(@, <<kind, addr, x>>)]

i960_read_w(o, addr) == Event(o, "read_w", addr, ReadW(o.mem, addr))

i960_read_b(o, addr) == Event(o, "read_b", addr, ReadB(o.mem, addr))

i960_read_s(o, addr) == Event(o, "read_s", addr, ReadS(o.mem, addr))

i960_write_w(o, addr, x) ==
    Event([o EXCEPT !.mem = WriteW(@, addr, x)], "write_w", addr, x)

i960_write_b(o, addr, x) ==
    Event([o EXCEPT !.mem = WriteB(@, addr, x)], "write_b", addr, x)

i960_write_s(o, addr, x) ==
    Event([o EXCEPT !.mem = WriteS(@, addr, x)], "write_s", addr, x)

i960_fault(o, type) == Event(o, "fault", 0, type)

\* the calls of one kind that an instruction made, in order
Calls(e, kind) == SelectSeq(e, LAMBDA x : x[1] = kind)

Faults(e) == [i \in 1 .. Len(Calls(e, "fault")) |-> Calls(e, "fault")[i][3]]

Writes(e) ==
    Calls(e, "write_b") \o Calls(e, "write_s") \o Calls(e, "write_w")

(***************************************************************************)
(* i960-emu-compare.h: condition code, compare, overflow                   *)
(***************************************************************************)
\* variants of i960_set_cond that a slip would give: one does not clear the
\* old condition code, the other does not keep the rest of AC
i960_set_cond_or(o, cc) == [o EXCEPT !.ac = Or32(@, cc)]

i960_set_cond_clobber(o, cc) == [o EXCEPT !.ac = cc]

i960_set_cond(o, cc) ==
    [o EXCEPT !.ac = Or32(And32(@, Not32(I960_CC_MASK)), cc)]

\* variants: a compare that is always ordinal, and a conditional compare
\* that does not look at the less bit
i960_cmp_ordinal(o, a, b, I) ==
    i960_set_cond(o, IF ULt(a, b) THEN 4 ELSE IF a = b THEN 2 ELSE 1)

i960_concmp_always(o, a, b, I) ==
    LET le == IF I THEN ~SLt(b, a) ELSE ~ULt(b, a)
    IN  i960_set_cond(o, IF le THEN 2 ELSE 1)

i960_cmp(o, a, b, I) ==
    LET lt == IF I THEN SLt(a, b) ELSE ULt(a, b)
    IN  i960_set_cond(o, IF lt THEN 4 ELSE IF a = b THEN 2 ELSE 1)

i960_concmp(o, a, b, I) ==
    LET le == IF I THEN ~SLt(b, a) ELSE ~ULt(b, a)
    IN  IF And32(o.ac, 4) = 0
        THEN i960_set_cond(o, IF le THEN 2 ELSE 1)
        ELSE o

i960_on_undef(o) == i960_fault(o, 131073)

\* a variant of i960_on_overflow that does not look at the overflow mask
i960_on_overflow_unmasked(o) ==
    i960_fault(Event(o, "overflow", 0, o.ac), 196609)

\* the "overflow" event records that the instruction detected an overflow,
\* with the value AC had at that moment
i960_on_overflow(o) ==
    LET d == Event(o, "overflow", 0, o.ac)
    IN  IF u32_bit_select(o.ac, I960_OM_POS) = 1
        THEN [d EXCEPT !.ac = Or32(@, u32_bit_mask(I960_OF_POS))]
        ELSE i960_fault(d, 196609)

(***************************************************************************)
(* i960-emu-branch.h                                                       *)
(***************************************************************************)
\* for (i = 0; i < 16; ++i) o->r[c + i] = i960_read_w (o, efa + i):
\* the reads change no memory and the sixteen registers are distinct
i960_ldx(o, efa, c) ==
    [o EXCEPT
       !.r  = [k \in 0 .. 31 |->
                 IF k \in c .. c + 15 THEN ReadW(o.mem, Add32(efa, k - c))
                 ELSE o.r[k]],
       !.ev = @ \o [i \in 1 .. 16 |->
                      <<"read_w", Add32(efa, i - 1),
                        ReadW(o.mem, Add32(efa, i - 1))>>]]

\* for (i = 0; i < 16; ++i) i960_write_w (o, efa + i, o->r[c + i]): the
\* writes are made in order, so a byte keeps what the last write that
\* covers it stored
StxLast(efa, k) ==
    LET covering == {i \in 0 .. 15 : \E j \in 0 .. 3 : Add32(efa, i + j) = k}
    IN  CHOOSE i \in covering : \A i2 \in covering : i2 <= i

i960_stx(o, efa, c) ==
    LET written == {Add32(efa, n) : n \in 0 .. 18}
        byte(k) == LET i == StxLast(efa, k)
                   IN  Sar32(o.r[c + i], 8 * Sub32(k, Add32(efa, i))) % 256
    IN  [o EXCEPT
           !.mem = [k \in DOMAIN o.mem \cup written |->
                      IF k \in written THEN byte(k) ELSE o.mem[k]],
           !.ev  = @ \o [i \in 1 .. 16 |->
                           <<"write_w", Add32(efa, i - 1), o.r[c + i - 1]>>]]

i960_b(o, efa) == [o EXCEPT !.ip = efa]

i960_bal(o, efa, link) == i960_b([o EXCEPT !.r[link] = o.ip], efa)

\* a variant of i960_call that does not round the new frame up to 64 bytes
i960_call_unaligned(o, efa) ==
    LET fp == o.r[I960_SP]
        o1 == [o EXCEPT !.r[I960_RIP] = o.ip]
        o2 == i960_stx(o1, o1.r[I960_FP], 16)
        o3 == [o2 EXCEPT !.r[I960_PFP] = o2.r[I960_FP]]
        o4 == [o3 EXCEPT !.r[I960_FP] = fp]
        o5 == [o4 EXCEPT !.r[I960_SP] = Add32(fp, 64)]
    IN  i960_b(o5, efa)

i960_call(o, efa) ==
    LET fp == And32(Add32(o.r[I960_SP], 63), Not32(63))
        o1 == [o EXCEPT !.r[I960_RIP] = o.ip]
        o2 == i960_stx(o1, o1.r[I960_FP], 16)
        o3 == [o2 EXCEPT !.r[I960_PFP] = o2.r[I960_FP]]
        o4 == [o3 EXCEPT !.r[I960_FP] = fp]
        o5 == [o4 EXCEPT !.r[I960_SP] = Add32(fp, 64)]
    IN  i960_b(o5, efa)

i960_ret(o) ==
    LET o1 == [o EXCEPT !.r[I960_FP] = And32(o.r[I960_PFP], Not32(63))]
        o2 == i960_ldx(o1, o1.r[I960_FP], 16)
    IN  i960_b(o2, o2.r[I960_RIP])

i960_check_cond(o, op) ==
    LET cc == u32_extract(op, 24, 3)
    IN  (o.ac # 0 /\ cc # 0) \/ And32(o.ac, I960_CC_MASK) = cc

i960_bcc(o, op, efa) == IF i960_check_cond(o, op) THEN i960_b(o, efa) ELSE o

i960_faultcc(o, op, efa) ==
    IF i960_check_cond(o, op) THEN i960_fault(o, 327681) ELSE o

(***************************************************************************)
(* i960-core.c: helpers                                                    *)
(***************************************************************************)
u32_modify(old, new, mask) == Or32(And32(old, Not32(mask)), And32(new, mask))

\* i960_lock and i960_unlock have empty bodies in i960-emu.h: the call is
\* recorded and nothing else changes
i960_lock(o) == Event(o, "lock", 0, 0)

i960_unlock(o) == Event(o, "unlock", 0, 0)

\* <<the word read, o'>>
i960_read_lock(o, addr) ==
    <<ReadW(o.mem, addr), i960_read_w(i960_lock(o), addr)>>

\* a variant of i960_write_unlock that releases the lock before it writes
i960_write_unlock_early(o, addr, x) == i960_write_w(i960_unlock(o), addr, x)

i960_write_unlock(o, addr, x) == i960_unlock(i960_write_w(o, addr, x))

\* <<ok, o'>>
i960_div_check(o, d) == <<d # 0, IF d = 0 THEN i960_fault(o, 196610) ELSE o>>

\* a variant of i960_check_em that takes every mode for supervisor mode
i960_check_em_any(o) == <<1, o>>

\* <<em, o'>>
i960_check_em(o) ==
    LET em == u32_bit_select(o.pc, I960_EM_POS)
    IN  <<em, IF em = 0 THEN i960_fault(o, 655361) ELSE o>>

\* the MP adder helpers return <<*r, carry>>
u32_add(x, y) == LET s == Add32(x, y) IN <<s, IF ULt(s, x) THEN 1 ELSE 0>>

u32_adc(x, y, c) ==
    LET t == u32_add(y, c)
        s == u32_add(x, t[1])
    IN  <<s[1], t[2] + s[2]>>

u32_sub(x, y) == LET s == Sub32(x, y) IN <<s, IF ULt(x, s) THEN 1 ELSE 0>>

u32_sbb(x, y, c) ==
    LET t == u32_add(y, c)
        s == u32_sub(x, t[1])
    IN  <<s[1], t[2] + s[2]>>

u32_setbit(x, pos) == Or32(x, u32_bit_mask(pos))

u32_clrbit(x, pos) == And32(x, Not32(u32_bit_mask(pos)))

u32_notbit(x, pos) == Xor32(x, u32_bit_mask(pos))

i32_check_overflow(a, b, res) ==
    IF And32(Not32(Xor32(a, b)), Xor32(b, res)) < 0 THEN 1 ELSE 0

\* uint64_t (bh, bl) / a and % a for a # 0, by long division over the 64
\* bits from the top: <<low 32 bits of the quotient, remainder>>.  The bits
\* from..to are taken in order, the first half before the second.
u64_divmod(bh, bl, a) ==
    LET step(p, n) ==
            LET i    == 63 - n
                bit  == IF i >= 32 THEN u32_bit_select(bh, i - 32)
                        ELSE u32_bit_select(bl, i)
                rem2 == Add32(Add32(p[2], p[2]), bit)
                q2   == Add32(p[1], p[1])
            IN  IF p[2] < 0 \/ ~ULt(rem2, a)
                THEN <<Add32(q2, 1), Sub32(rem2, a)>>
                ELSE <<q2, rem2>>
        bits[t \in (Int \X Int) \X Int \X Int] ==
            IF t[2] = t[3] THEN step(t[1], t[2])
            ELSE LET mid == (t[2] + t[3]) \div 2
                 IN  bits[<<bits[<<t[1], t[2], mid>>], mid + 1, t[3]>>]
    IN  bits[<<<<0, 0>>, 0, 63>>]

u64_div(bh, bl, a) == u64_divmod(bh, bl, a)[1]

u64_rem(bh, bl, a) == u64_divmod(bh, bl, a)[2]

\* (int32_t) b / (int32_t) a and % of C, which truncate toward zero; a # 0
\* and not (b = INT32_MIN and a = -1)
i32_div(b, a) ==
    LET pos(n, d) == IF n >= 0 THEN n \div d ELSE (n + d - 1) \div d
    IN  IF a > 0 THEN pos(b, a)
        ELSE IF a = MinI32 THEN (IF b = MinI32 THEN 1 ELSE 0)
        ELSE 0 - pos(b, 0 - a)

i32_rem(b, a) == IF a = MinI32 /\ b # MinI32 THEN b ELSE b - i32_div(b, a) * a

(***************************************************************************)
(* i960-core.c: REG format handlers, (o, op, a, b, c) -> o'                *)
(***************************************************************************)
reg_add(o, op, a, b, c) ==
    LET F0 == u32_bit_select(op, 7 + 0)
        F1 == u32_bit_select(op, 7 + 1)
        o1 == [o EXCEPT !.r[c] = IF F1 = 1 THEN Sub32(b, a) ELSE Add32(b, a)]
    IN  IF F0 = 1 /\ i32_check_overflow(a, b, o1.r[c]) = 1
        THEN i960_on_overflow(o1)
        ELSE o1

reg_addc(o, op, a, b, c) ==
    LET F1  == u32_bit_select(op, 7 + 1)
        cin == IF And32(o.ac, 2) # 0 THEN 1 ELSE 0
        rc  == IF F1 = 1 THEN u32_sbb(a, b, cin) ELSE u32_adc(a, b, cin)
        o1  == [o EXCEPT !.r[c] = rc[1]]
    IN  i960_set_cond(o1, Or32(rc[2] * 2, i32_check_overflow(a, b, rc[1])))

\* (int8_t) x, (uint8_t) x, (int16_t) x, (uint16_t) x converted to uint32_t
SExt(x, n) == LET m == x % (2 ^ n) IN IF m >= 2 ^ (n - 1) THEN m - 2 ^ n ELSE m

ZExt(x, n) == x % (2 ^ n)

reg_cmpe(o, op, a, b, c) ==
    LET F0 == u32_bit_select(op, 7 + 0)
        F1 == u32_bit_select(op, 7 + 1)
        n  == IF F1 = 1 THEN 16 ELSE 8
        a1 == IF F0 = 1 THEN SExt(a, n) ELSE ZExt(a, n)
        b1 == IF F0 = 1 THEN SExt(b, n) ELSE ZExt(b, n)
    IN  i960_cmp(o, a1, b1, F0 = 1)

reg_addx(o, op, a, b, c) ==
    LET F2 == u32_bit_select(op, 7 + 2)
    IN  IF F2 = 1 THEN reg_cmpe(o, op, a, b, c) ELSE reg_add(o, op, a, b, c)

\* a < 32 of uint32_t
ULt32(a) == 0 <= a /\ a < 32

reg_shro(o, op, a, b, c) ==
    [o EXCEPT !.r[c] = IF ULt32(a) THEN Shr32(b, a) ELSE 0]

\* the test b < (r << n) compares b with b less its low n bits as unsigned
\* numbers
reg_shrdi(o, op, a, b, c) ==
    LET n  == IF ULt32(a) THEN a ELSE 31
        r0 == Sar32(b, n)
    IN  [o EXCEPT !.r[c] = IF ULt(b, Shl32(r0, n)) THEN Add32(r0, 1) ELSE r0]

reg_shri(o, op, a, b, c) ==
    [o EXCEPT !.r[c] = Sar32(b, IF ULt32(a) THEN a ELSE 31)]

reg_shlo(o, op, a, b, c) ==
    [o EXCEPT !.r[c] = IF ULt32(a) THEN Shl32(b, a) ELSE 0]

reg_rotate(o, op, a, b, c) ==
    [o EXCEPT !.r[c] = Or32(Shl32(b, a % 32), Shr32(b, (32 - (a % 32)) % 32))]

\* x << k of the int64_t x = (int32_t) b for 0 <= k <= 32, as the words
\* <<high, low>> of the 64-bit result; the shift of a negative x is the
\* two's-complement one of the GCC build
i64_shl(b, k) ==
    LET xh == IF b < 0 THEN -1 ELSE 0
    IN  IF k = 32 THEN <<b, 0>>
        ELSE IF k = 0 THEN <<xh, b>>
        ELSE <<Or32(Shl32(xh, k), Shr32(b, 32 - k)), Shl32(b, k)>>

\* a variant of reg_shli that looks at the sign bit of the result only
reg_shli_sign(o, op, a, b, c) ==
    LET res == i64_shl(b, IF ULt32(a) THEN a ELSE 32)
        o1  == [o EXCEPT !.r[c] = res[2]]
    IN  IF Xor32(res[2], b) < 0 THEN i960_on_overflow(o1) ELSE o1

\* (r ^ x) >> 31 != 0: bits 31 .. 63 of r and of x differ somewhere
reg_shli(o, op, a, b, c) ==
    LET xh  == IF b < 0 THEN -1 ELSE 0
        res == i64_shl(b, IF ULt32(a) THEN a ELSE 32)
        o1  == [o EXCEPT !.r[c] = res[2]]
    IN  IF Xor32(res[1], xh) # 0 \/ Xor32(res[2], b) < 0
        THEN i960_on_overflow(o1)
        ELSE o1

reg_shift(o, op, a, b, c) ==
    LET F == u32_extract(op, 7, 3)
    IN  CASE F = 0 -> reg_shro(o, op, a, b, c)
          [] F = 1 -> reg_shro(o, op, a, b, c)
          [] F = 2 -> reg_shrdi(o, op, a, b, c)
          [] F = 3 -> reg_shri(o, op, a, b, c)
          [] F = 4 -> reg_shlo(o, op, a, b, c)
          [] F = 5 -> reg_rotate(o, op, a, b, c)
          [] F = 6 -> reg_shli(o, op, a, b, c)
          [] F = 7 -> reg_rotate(o, op, a, b, c)

reg_59(o, op, a, b, c) ==
    IF u32_bit_select(op, 7 + 3) = 1 THEN reg_shift(o, op, a, b, c)
    ELSE reg_addx(o, op, a, b, c)

reg_cmp(o, op, a, b, c) ==
    LET F0 == u32_bit_select(op, 7 + 0)
        F1 == u32_bit_select(op, 7 + 1)
        F2 == u32_bit_select(op, 7 + 2)
        o1 == IF F1 = 1 /\ F2 = 0
              THEN i960_concmp(o, a, b, F0 = 1)
              ELSE i960_cmp(o, a, b, F0 = 1)
    IN  IF F2 = 1 THEN reg_add(o1, And32(op, Not32(1)), 1, b, c) ELSE o1

reg_scanbyte(o, op, a, b, c) ==
    LET c0 == Xor32(a, b)
        c1 == And32(Shr32(c0, 16), c0)
        c2 == And32(Shr32(c1, 8), c1)
    IN  i960_set_cond(o, IF And32(c2, 255) = 0 THEN 2 ELSE 0)

\* bswap_32 (a)
reg_bswap(o, op, a, b, c) ==
    [o EXCEPT !.r[c] = Wrap(256 * (a % 256) + ((a \div 256) % 256),
                            256 * (Hi(a) % 256) + ((Hi(a) \div 256) % 256))]

reg_chkbit(o, op, a, b, c) ==
    i960_set_cond(o, IF u32_bit_select(b, a) = 1 THEN 2 ELSE 0)

reg_misc(o, op, a, b, c) ==
    LET F0 == u32_bit_select(op, 7 + 0)
        F1 == u32_bit_select(op, 7 + 1)
    IN  IF F1 = 1 THEN reg_chkbit(o, op, a, b, c)
        ELSE IF F0 = 1 THEN reg_bswap(o, op, a, b, c)
        ELSE reg_scanbyte(o, op, a, b, c)

reg_5A(o, op, a, b, c) ==
    LET F3 == u32_bit_select(op, 7 + 3)
    IN  IF F3 = 1 THEN reg_misc(o, op, a, b, c) ELSE reg_cmp(o, op, a, b, c)

I960_ICON     == 0 - 16743152
I960_ICON_GIE == 10

reg_intdis(o, op, a, b, c) ==
    LET icon == ReadW(o.mem, I960_ICON)
        em   == i960_check_em(i960_read_w(o, I960_ICON))
    IN  IF em[1] = 1
        THEN i960_write_w(em[2], I960_ICON, u32_setbit(icon, I960_ICON_GIE))
        ELSE em[2]

reg_inten(o, op, a, b, c) ==
    LET icon == ReadW(o.mem, I960_ICON)
        em   == i960_check_em(i960_read_w(o, I960_ICON))
    IN  IF em[1] = 1
        THEN i960_write_w(em[2], I960_ICON, u32_clrbit(icon, I960_ICON_GIE))
        ELSE em[2]

reg_5B(o, op, a, b, c) ==
    LET F0 == u32_bit_select(op, 7 + 0)
        F2 == u32_bit_select(op, 7 + 2)
    IN  IF F2 = 0 THEN reg_addc(o, op, a, b, c)
        ELSE IF F0 = 1 THEN reg_inten(o, op, a, b, c)
        ELSE reg_intdis(o, op, a, b, c)

reg_atomic(o, op, a, b, c) ==
    LET F1  == u32_bit_select(op, 7 + 1)
        src == And32(a, Not32(3))
        rd  == i960_read_lock(o, src)
        old == rd[1]
        new == IF F1 = 1 THEN Add32(old, b) ELSE u32_modify(old, o.r[c], b)
    IN  [i960_write_unlock(rd[2], src, new) EXCEPT !.r[c] = old]

\* 31 - __builtin_clz (a) for a # 0: the position of the highest set bit
top_bit(a) ==
    CHOOSE i \in 0 .. 31 :
        /\ u32_bit_select(a, i) = 1
        /\ \A j \in i + 1 .. 31 : u32_bit_select(a, j) = 0

reg_scanbit(o, op, a, b, c) ==
    i960_set_cond([o EXCEPT !.r[c] = IF a = 0 THEN -1 ELSE top_bit(a)],
                  IF a = 0 THEN 0 ELSE 2)

reg_modac(o, op, a, b, c) ==
    [o EXCEPT !.ac = u32_modify(o.ac, b, a), !.r[c] = o.ac]

reg_64(o, op, a, b, c) ==
    LET F0 == u32_bit_select(op, 7 + 0)
        F2 == u32_bit_select(op, 7 + 2)
    IN  IF F2 = 1 THEN reg_modac(o, op, a, b, c)
        ELSE reg_scanbit(o, op, IF F0 = 1 THEN a ELSE Not32(a), b, c)

reg_modtc(o, op, a, b, c) ==
    [o EXCEPT !.tc = u32_modify(o.tc, b, And32(a, 16711935)), !.r[c] = o.tc]

\* a variant of reg_modpc that does not ask for supervisor mode
reg_modpc_unchecked(o, op, a, b, c) ==
    [o EXCEPT !.pc = u32_modify(o.pc, o.r[c], b), !.r[c] = o.pc]

reg_modpc(o, op, a, b, c) ==
    LET m  == b
        em == i960_check_em(o)
    IN  IF m # 0 /\ em[1] = 0 THEN em[2]
        ELSE [o EXCEPT !.pc = u32_modify(o.pc, o.r[c], m), !.r[c] = o.pc]

reg_modify(o, op, a, b, c) == [o EXCEPT !.r[c] = u32_modify(o.r[c], b, a)]

\* b > 31 is an unsigned comparison
reg_extract(o, op, a, b, c) ==
    [o EXCEPT !.r[c] = IF b < 0 \/ b > 31 THEN o.r[c]
                       ELSE u32_extract(o.r[c], a, b)]

reg_65(o, op, a, b, c) ==
    LET F0 == u32_bit_select(op, 7 + 0)
        F2 == u32_bit_select(op, 7 + 2)
    IN  IF F2 = 1
        THEN (IF F0 = 1 THEN reg_modpc(o, op, a, b, c)
              ELSE reg_modtc(o, op, a, b, c))
        ELSE (IF F0 = 1 THEN reg_extract(o, op, a, b, c)
              ELSE reg_modify(o, op, a, b, c))

\* the index with bit k set, c | k of C
BitOr(c, k) == IF (c \div k) % 2 = 1 THEN c ELSE c + k

\* notbit, and, andnot, setbit, notand, xor, or, nor, xnor, not, ornot,
\* clrbit, notor, nand, alterbit; case 5 is the filler of the source
reg_log(o, op, a, b, c) ==
    LET F == u32_extract(op, 7, 4)
    IN  [o EXCEPT !.r[c] =
            CASE F = 0  -> u32_notbit(b, a)
              [] F = 1  -> And32(a, b)
              [] F = 2  -> And32(Not32(a), b)
              [] F = 3  -> u32_setbit(b, a)
              [] F = 4  -> And32(a, Not32(b))
              [] F = 5  -> And32(a, Not32(b))
              [] F = 6  -> Xor32(a, b)
              [] F = 7  -> Or32(a, b)
              [] F = 8  -> Not32(Or32(a, b))
              [] F = 9  -> Not32(Xor32(a, b))
              [] F = 10 -> Not32(a)
              [] F = 11 -> Or32(Not32(a), b)
              [] F = 12 -> u32_clrbit(b, a)
              [] F = 13 -> Or32(a, Not32(b))
              [] F = 14 -> Not32(And32(a, b))
              [] F = 15 -> IF And32(o.ac, 2) # 0 THEN u32_setbit(b, a)
                           ELSE u32_clrbit(b, a)]

\* ((uint64_t) bh << 32 | b) >> (a & 31), the low word
reg_eshro(o, op, a, b, c) ==
    LET bh == o.r[BitOr(u32_extract(op, 14, 5), 1)]
        n  == a % 32
    IN  [o EXCEPT !.r[c] = IF n = 0 THEN b
                           ELSE Or32(Shr32(b, n), Shl32(bh, 32 - n))]

\* the cases of the switch fall through: 3, 2, 1, 0
reg_move(o, op, a, b, c) ==
    LET i   == u32_extract(op, 24 + 0, 2)
        src == u32_extract(op, 0, 5)
        o3  == IF i >= 3
               THEN [o EXCEPT !.r[BitOr(BitOr(c, 1), 2)] =
                                  o.r[BitOr(BitOr(src, 1), 2)]]
               ELSE o
        o2  == IF i >= 2 THEN [o3 EXCEPT !.r[BitOr(c, 2)] = o3.r[BitOr(src, 2)]]
               ELSE o3
        o1  == IF i >= 1 THEN [o2 EXCEPT !.r[BitOr(c, 1)] = o2.r[BitOr(src, 1)]]
               ELSE o2
    IN  [o1 EXCEPT !.r[c] = a]

reg_5C(o, op, a, b, c) ==
    IF u32_bit_select(op, 7 + 2) = 1 THEN reg_move(o, op, a, b, c)
    ELSE reg_eshro(o, op, a, b, c)

reg_core(o, op, a, b, c) ==
    LET i == u32_extract(op, 24 + 0, 3)
    IN  CASE i = 0 -> reg_log(o, op, a, b, c)
          [] i = 1 -> reg_59(o, op, a, b, c)
          [] i = 2 -> reg_5A(o, op, a, b, c)
          [] i = 3 -> reg_5B(o, op, a, b, c)
          [] i >= 4 -> reg_5C(o, op, a, b, c)

reg_ediv(o, op, a, b, c) ==
    LET bh == o.r[BitOr(u32_extract(op, 14, 5), 1)]
        ok == i960_div_check(o, a)
        o1 == [ok[2] EXCEPT !.r[c] = IF ok[1] THEN u64_rem(bh, b, a) ELSE b]
    IN  [o1 EXCEPT !.r[BitOr(c, 1)] = IF ok[1] THEN u64_div(bh, b, a) ELSE 0]

reg_divo(o, op, a, b, c) ==
    LET F1 == u32_bit_select(op, 7 + 1)
        ok == i960_div_check(o, a)
    IN  IF ok[1]
        THEN [ok[2] EXCEPT !.r[c] = IF F1 = 1 THEN u64_div(0, b, a)
                                    ELSE u64_rem(0, b, a)]
        ELSE ok[2]

\* the 32-bit product x * y of two 16-bit naturals, as <<high, low>> halves
Mul16(x, y) ==
    LET p0 == x * (y % 256)
        p1 == x * (y \div 256)
        t  == p0 + (p1 % 256) * 256
    IN  <<(t \div Half) + (p1 \div 256), t % Half>>

\* (int64_t) a * (int64_t) b of two uint32_t: the operands are widened
\* without sign, and the 64-bit product is given as four 16-bit limbs,
\* the most significant first
u64_mul(a, b) ==
    LET ah == Hi(a) % Half
        al == Lo(a)
        bh == Hi(b) % Half
        bl == Lo(b)
        ll == Mul16(al, bl)
        lh == Mul16(al, bh)
        hl == Mul16(ah, bl)
        hh == Mul16(ah, bh)
        s1 == ll[1] + lh[2] + hl[2]
        s2 == (s1 \div Half) + lh[1] + hl[1] + hh[2]
    IN  <<(s2 \div Half) + hh[1], s2 % Half, s1 % Half, ll[2]>>

\* a * b of uint32_t
reg_mulo(o, op, a, b, c) ==
    LET p == u64_mul(a, b) IN [o EXCEPT !.r[c] = Wrap(p[3], p[4])]

\* a product of 2^63 or more overflows int64_t: the behaviour is undefined
I64MulUB(a, b) == u64_mul(a, b)[1] >= 32768

MulUBs == {"wrap", "fold", "trap"}

\* ub is what the build makes of the undefined product: "wrap" (the
\* two's complement product, negative, compared as written), "fold" (the
\* same product with the test r < INT32_MIN folded away, the product of
\* two widened operands being taken as non-negative) or "trap"
reg_muli(o, op, a, b, c, ub) ==
    LET p   == u64_mul(a, b)
        o1  == [o EXCEPT !.r[c] = Wrap(p[3], p[4])]
        neg == p[1] >= 32768
        lt  == neg /\ ~(p[1] = 65535 /\ p[2] = 65535 /\ p[3] >= 32768)
        gt  == ~neg /\ ~(p[1] = 0 /\ p[2] = 0 /\ p[3] < 32768)
    IN  IF I64MulUB(a, b) /\ ub = "trap" THEN Event(o, "trap", 0, 0)
        ELSE IF (lt /\ ub # "fold") \/ gt THEN i960_on_overflow(o1)
        ELSE o1

\* INT32_MIN / -1 and INT32_MIN % -1 overflow in C: the behaviour is
\* undefined.  ub is what the build makes of it: "wrap" (the two's
\* complement result) or "trap" (the host's divide exception).
I32DivUB(a, b) == b = MinI32 /\ a = -1

\* a variant of reg_remi whose modi adds the divisor to a zero remainder too
reg_remi_always(o, op, a, b, c, ub) ==
    LET F0 == u32_bit_select(op, 7 + 0)
        ok == i960_div_check(o, a)
        q  == IF I32DivUB(a, b) THEN 0 ELSE i32_rem(b, a)
        o1 == [ok[2] EXCEPT !.r[c] = q]
    IN  IF ~ok[1] THEN ok[2]
        ELSE IF I32DivUB(a, b) /\ ub = "trap" THEN Event(o, "trap", 0, 0)
        ELSE IF F0 = 1 /\ Xor32(a, b) < 0
             THEN [o1 EXCEPT !.r[c] = Add32(q, a)]
             ELSE o1

reg_remi(o, op, a, b, c, ub) ==
    LET F0 == u32_bit_select(op, 7 + 0)
        ok == i960_div_check(o, a)
        q  == IF I32DivUB(a, b) THEN 0 ELSE i32_rem(b, a)
        o1 == [ok[2] EXCEPT !.r[c] = q]
    IN  IF ~ok[1] THEN ok[2]
        ELSE IF I32DivUB(a, b) /\ ub = "trap" THEN Event(o, "trap", 0, 0)
        ELSE IF F0 = 1 /\ q # 0 /\ Xor32(a, b) < 0
             THEN [o1 EXCEPT !.r[c] = Add32(q, a)]
             ELSE o1

reg_divi(o, op, a, b, c, ub) ==
    LET ok == i960_div_check(o, a)
        q  == IF I32DivUB(a, b) THEN MinI32 ELSE i32_div(b, a)
        o1 == [ok[2] EXCEPT !.r[c] = q]
    IN  IF ~ok[1] THEN ok[2]
        ELSE IF I32DivUB(a, b) /\ ub = "trap" THEN Event(o, "trap", 0, 0)
        ELSE IF Xor32(Xor32(a, b), q) < 0 THEN i960_on_overflow(o1)
        ELSE o1

\* FPU not implemented
i960_fpu(o, op, a, b, c) == i960_on_undef(o)

reg_addcc(o, op, a, b, c) ==
    IF i960_check_cond(o, op) THEN reg_add(o, op, a, b, c) ELSE o

reg_selcc(o, op, a, b, c) ==
    [o EXCEPT !.r[c] = IF i960_check_cond(o, op) THEN b ELSE a]

reg_cond(o, op, a, b, c) ==
    LET F2 == u32_bit_select(op, 7 + 2)
        F3 == u32_bit_select(op, 7 + 3)
    IN  IF F3 = 1 THEN i960_fpu(o, op, a, b, c)
        ELSE IF F2 = 1 THEN reg_selcc(o, op, a, b, c)
        ELSE reg_addcc(o, op, a, b, c)

(***************************************************************************)
(* CTRL format (ctrl_op, i960_ctrl)                                        *)
(***************************************************************************)
ctrl_op(o, op, efa) ==
    LET C4 == u32_bit_select(op, 24 + 4)
        C3 == u32_bit_select(op, 24 + 3)
        i  == u32_extract(op, 24 + 0, 2)
    IN  IF C4 = 0
        THEN CASE i = 0 -> i960_b(o, efa)
               [] i = 1 -> i960_call(o, efa)
               [] i = 2 -> i960_ret(o)
               [] i = 3 -> i960_bal(o, efa, I960_LP)
        ELSE IF C3 = 0 THEN i960_bcc(o, op, efa)
        ELSE i960_faultcc(o, op, efa)

\* (((int32_t) op << k) >> k) & ~3: the low 32 - k bits, sign-extended.
\* The shifts are the two's-complement ones the GCC build defines for
\* signed operands (the sources rely on GCC builtins throughout).
SignedField(op, k) == And32(Sar32(Shl32(op, k), k), Not32(3))

i960_ctrl(o, op, at) == ctrl_op(o, op, Add32(at, SignedField(op, 8)))

(***************************************************************************)
(* COBR format (cobr_op, i960_cobr)                                        *)
(***************************************************************************)
cobr_testcc(o, op, a, b, disp) ==
    LET c == u32_extract(op, 19, 5)
    IN  [o EXCEPT !.r[c] = IF i960_check_cond(o, op) THEN 1 ELSE 0]

cobr_bb(o, op, a, b, disp) ==
    LET C0 == u32_bit_select(op, 24 + 0)
        ok == u32_bit_select(b, a) = C0
        o1 == i960_set_cond(o, IF ok THEN 2 ELSE 0)
    IN  IF ok THEN i960_b(o1, Add32(o1.ip, disp)) ELSE o1

cobr_cmpbcc(o, op, a, b, disp) ==
    LET C3 == u32_bit_select(op, 24 + 3)
        o1 == i960_cmp(o, a, b, C3 = 1)
    IN  i960_bcc(o1, op, Add32(o1.ip, disp))

cobr_op(o, op, a, b, disp) ==
    LET C4 == u32_bit_select(op, 24 + 4)
    IN  IF C4 = 0 THEN cobr_testcc(o, op, a, b, disp)
        ELSE IF op = 48 \/ op = 55 THEN cobr_bb(o, op, a, b, disp)
        ELSE cobr_cmpbcc(o, op, a, b, disp)

i960_cobr(o, op, at) ==
    LET ai == u32_extract(op, 19, 5)
        bi == u32_extract(op, 14, 5)
        a  == IF u32_bit_select(op, 13) = 1 THEN ai ELSE o.r[ai]
    IN  cobr_op(o, op, a, o.r[bi], SignedField(op, 19))

(***************************************************************************)
(* MEM format: the functions that access no memory (mem_funcs)             *)
(***************************************************************************)
mem_funcs(o, op, efa, c) ==
    LET C3 == u32_bit_select(op, 24 + 3)
        i  == u32_extract(op, 24 + 0, 2)
    IN  IF C3 = 1 THEN [o EXCEPT !.r[c] = efa]
        ELSE CASE i = 0 -> i960_b(o, efa)
               [] i = 1 -> i960_bal(o, efa, c)
               [] i = 2 -> i960_call(o, efa)
               [] i = 3 -> i960_call(o, efa)

(***************************************************************************)
(* MEM format: stob / stib and stos / stis (mem_stb, mem_sts)               *)
(***************************************************************************)
mem_stb(o, op, efa, c) ==
    LET C6 == u32_bit_select(op, 24 + 6)
        x  == o.r[c]
        o1 == i960_write_b(o, efa, x)
    IN  IF C6 = 1 /\ x # SExt(x, 8) THEN i960_on_overflow(o1) ELSE o1

mem_sts(o, op, efa, c) ==
    LET C6 == u32_bit_select(op, 24 + 6)
        x  == o.r[c]
        o1 == i960_write_s(o, efa, x)
    IN  IF C6 = 1 /\ x # SExt(x, 16) THEN i960_on_overflow(o1) ELSE o1


(***************************************************************************)
(* MEM format: the loads (mem_load).  The byte and the short come from the *)
(* host as uint8_t and uint16_t; an integer load (C6) converts them to     *)
(* int8_t and int16_t before the assignment to the register.               *)
(***************************************************************************)
\* a variant of mem_ldb that never sign-extends
mem_ldb_ordinal(o, op, efa, c) ==
    [i960_read_b(o, efa) EXCEPT !.r[c] = ReadB(o.mem, efa)]

mem_ldb(o, op, efa, c) ==
    LET C6 == u32_bit_select(op, 24 + 6)
        x  == ReadB(o.mem, efa)
    IN  [i960_read_b(o, efa) EXCEPT !.r[c] = IF C6 = 1 THEN SExt(x, 8) ELSE x]

mem_lds(o, op, efa, c) ==
    LET C6 == u32_bit_select(op, 24 + 6)
        x  == ReadS(o.mem, efa)
    IN  [i960_read_s(o, efa) EXCEPT !.r[c] = IF C6 = 1 THEN SExt(x, 16) ELSE x]

\* o->r[c | k] = i960_read_w (o, efa + 4 * k) for k = 0 .. n - 1
RECURSIVE mem_ldn(_, _, _, _)
mem_ldn(o, efa, c, n) ==
    IF n = 0 THEN o
    ELSE LET o1 == mem_ldn(o, efa, c, n - 1)
             at == Add32(efa, 4 * (n - 1))
             k  == IF n = 1 THEN c
                   ELSE IF n = 2 THEN BitOr(c, 1)
                   ELSE IF n = 3 THEN BitOr(c, 2)
                   ELSE BitOr(BitOr(c, 1), 2)
         IN  [i960_read_w(o1, at) EXCEPT !.r[k] = ReadW(o1.mem, at)]

mem_ld(o, op, efa, c) == mem_ldn(o, efa, c, 1)

mem_ldl(o, op, efa, c) == mem_ldn(o, efa, c, 2)

mem_ldt(o, op, efa, c) == mem_ldn(o, efa, c, 3)

mem_ldq(o, op, efa, c) == mem_ldn(o, efa, c, 4)

mem_load(o, op, efa, c) ==
    LET i == u32_extract(op, 24 + 3, 3)
    IN  CASE i = 0 -> mem_ldb(o, op, efa, c)
          [] i = 1 -> mem_lds(o, op, efa, c)
          [] i = 2 -> mem_ld(o, op, efa, c)
          [] i = 3 -> mem_ldl(o, op, efa, c)
          [] i \in {4, 5} -> mem_ldt(o, op, efa, c)
          [] i \in {6, 7} -> mem_ldq(o, op, efa, c)

(***************************************************************************)
(* The disassembler.  Every function takes what the C function takes but   *)
(* the stream and returns the text it prints; the four that return a       *)
(* length return <<text, length>>.  dasm_ctrl, dasm_cobr, dasm_mem and     *)
(* dasm_reg are the static functions i960_ctrl, i960_cobr, i960_mem and    *)
(* i960_reg of the disassembler.  A table is the set of its entries        *)
(* <<index, name, args>>; the entries it does not list are zero.           *)
(***************************************************************************)
HexDigit(n) == SubSeq("0123456789abcdef", n + 1, n + 1)

RECURSIVE HexDigits(_, _)
HexDigits(x, k) ==
    IF k < 0 THEN ""
    ELSE HexDigit(u32_extract(x, 4 * k, 4)) \o HexDigits(x, k - 1)

\* %08x and %x of a uint32_t, %d of a small int
Hex8(x) == HexDigits(x, 7)

Hex(x) ==
    LET top == CHOOSE k \in 0 .. 7 :
                   /\ k = 0 \/ u32_extract(x, 4 * k, 4) # 0
                   /\ \A j \in k + 1 .. 7 : u32_extract(x, 4 * j, 4) = 0
    IN  HexDigits(x, top)

RECURSIVE Dec(_)
Dec(n) == IF n < 10 THEN HexDigit(n) ELSE Dec(n \div 10) \o HexDigit(n % 10)

tabent(map, i) ==
    IF \E e \in map : e[1] = i
    THEN LET e == CHOOSE e \in map : e[1] = i
         IN  [name |-> e[2], args |-> e[3]]
    ELSE [name |-> "", args |-> 0]

imm(prefix, x) ==
    IF x \in 0 .. 9 THEN prefix \o Dec(x) ELSE prefix \o "0x" \o Hex(x)

label(prefix, efa) == imm(prefix, efa)

regs ==
    <<"pfp", "sp", "rip", "r3", "r4", "r5", "r6", "r7", "r8", "r9", "r10",
      "r11", "r12", "r13", "r14", "r15", "g0", "g1", "g2", "g3", "g4", "g5",
      "g6", "g7", "g8", "g9", "g10", "g11", "g12", "g13", "g14", "fp">>

lits ==
    <<"0", "1", "2", "3", "4", "5", "6", "7", "8", "9", "10", "11", "12",
      "13", "14", "15", "16", "17", "18", "19", "20", "21", "22", "23", "24",
      "25", "26", "27", "28", "29", "30", "31">>

sregs ==
    <<"sf0", "sf1", "sf2", "sf3", "sf4", "sf5", "sf6", "sf7", "sf8", "sf9",
      "sf10", "sf11", "sf12", "sf13", "sf14", "sf15", "sf16", "sf17", "sf18",
      "sf19", "sf20", "sf21", "sf22", "sf23", "sf24", "sf25", "sf26", "sf27",
      "sf28", "sf29", "sf30", "sf31">>

fregs ==
    <<"fp0", "fp1", "fp2", "fp3", "fp4", "fp5", "fp6", "fp7", "fp8", "fp9",
      "fp10", "fp11", "fp12", "fp13", "fp14", "fp15", "0.0", "fp17", "fp18",
      "fp19", "fp20", "fp21", "1.0", "fp23", "fp24", "fp25", "fp26", "fp27",
      "fp28", "fp29", "fp30", "fp31">>

ctrl_map ==
    {<<8, "b", 1>>, <<9, "call", 1>>, <<10, "ret", 0>>, <<11, "bal", 1>>,
     <<16, "bno", 1>>, <<17, "bg", 1>>, <<18, "be", 1>>, <<19, "bge", 1>>,
     <<20, "bl", 1>>, <<21, "bne", 1>>, <<22, "ble", 1>>, <<23, "bo", 1>>,
     <<24, "faultno", 0>>, <<25, "faultg", 0>>, <<26, "faulte", 0>>,
     <<27, "faultge", 0>>, <<28, "faultl", 0>>, <<29, "faultne", 0>>,
     <<30, "faultle", 0>>, <<31, "faulto", 0>>}

cobr_map ==
    {<<0, "testno", 1>>, <<1, "testg", 1>>, <<2, "teste", 1>>,
     <<3, "testge", 1>>, <<4, "testl", 1>>, <<5, "testne", 1>>,
     <<6, "testle", 1>>, <<7, "testo", 1>>, <<16, "bbc", 3>>,
     <<17, "cmpobg", 3>>, <<18, "cmpobe", 3>>, <<19, "cmpobge", 3>>,
     <<20, "cmpobl", 3>>, <<21, "cmpobne", 3>>, <<22, "cmpoble", 3>>,
     <<23, "bbs", 3>>, <<24, "cmpibno", 3>>, <<25, "cmpibg", 3>>,
     <<26, "cmpibe", 3>>, <<27, "cmpibge", 3>>, <<28, "cmpibl", 3>>,
     <<29, "cmpibne", 3>>, <<30, "cmpible", 3>>, <<31, "cmpibo", 3>>}

mem_map ==
    {<<0, "ldob", 2>>, <<2, "stob", 1>>, <<4, "bx", 0>>, <<5, "balx", 2>>,
     <<6, "callx", 0>>, <<8, "ldos", 2>>, <<10, "stos", 1>>, <<12, "lda", 2>>,
     <<16, "ld", 2>>, <<18, "st", 1>>, <<24, "ldl", 2>>, <<26, "stl", 1>>,
     <<32, "ldt", 2>>, <<34, "stt", 1>>, <<44, "dcinva", 0>>,
     <<48, "ldq", 2>>, <<50, "stq", 1>>, <<64, "ldib", 2>>, <<66, "stib", 1>>,
     <<72, "ldis", 2>>, <<74, "stis", 1>>}

reg_map ==
    {<<384, "notbit", 7>>, <<385, "and", 7>>, <<386, "andnot", 7>>,
     <<387, "setbit", 7>>, <<388, "notand", 7>>, <<390, "xor", 7>>,
     <<391, "or", 7>>, <<392, "nor", 7>>, <<393, "xnor", 7>>,
     <<394, "not", 5>>, <<395, "ornot", 7>>, <<396, "clrbit", 7>>,
     <<397, "notor", 7>>, <<398, "nand", 7>>, <<399, "alterbit", 7>>,
     <<400, "addo", 7>>, <<401, "addi", 7>>, <<402, "subo", 7>>,
     <<403, "subi", 7>>, <<404, "cmpob", 3>>, <<405, "cmpib", 3>>,
     <<406, "cmpos", 3>>, <<407, "cmpis", 3>>, <<408, "shro", 7>>,
     <<410, "shrdi", 7>>, <<411, "shri", 7>>, <<412, "shlo", 7>>,
     <<413, "rotate", 7>>, <<414, "shli", 7>>, <<416, "cmpo", 3>>,
     <<417, "cmpi", 3>>, <<418, "concmpo", 3>>, <<419, "concmpi", 3>>,
     <<420, "cmpinco", 7>>, <<421, "cmpinci", 7>>, <<422, "cmpdeco", 7>>,
     <<423, "cmpdeci", 7>>, <<428, "scanbyte", 3>>, <<429, "bswap", 5>>,
     <<430, "chkbit", 3>>, <<432, "addc", 7>>, <<434, "subc", 7>>,
     <<436, "intdis", 0>>, <<437, "inten", 0>>, <<460, "mov", 5>>,
     <<472, "eshro", 7>>, <<476, "movl", 5>>, <<492, "movt", 5>>,
     <<508, "movq", 5>>, <<512, "synmov", 3>>, <<513, "synmovl", 3>>,
     <<514, "synmovq", 3>>, <<515, "cmpstr", 7>>, <<516, "movqstr", 7>>,
     <<517, "movstr", 7>>, <<528, "atmod", 7>>, <<530, "atadd", 7>>,
     <<531, "inspacc", 5>>, <<532, "ldphy", 5>>, <<533, "synld", 5>>,
     <<535, "fill", 7>>, <<560, "sdma", 7>>, <<561, "udma", 0>>,
     <<576, "spanbit", 5>>, <<577, "scanbit", 5>>, <<578, "daddc", 7>>,
     <<579, "dsubc", 7>>, <<580, "dmovt", 5>>, <<581, "modac", 7>>,
     <<582, "condrec", 5>>, <<592, "modify", 7>>, <<593, "extract", 7>>,
     <<596, "modtc", 7>>, <<597, "modpc", 7>>, <<598, "receive", 5>>,
     <<600, "intctl", 5>>, <<601, "sysctl", 7>>, <<603, "icctl", 7>>,
     <<604, "dcctl", 7>>, <<605, "halt", 0>>, <<608, "calls", 1>>,
     <<610, "send", 7>>, <<611, "sendserv", 1>>, <<612, "resumprcs", 1>>,
     <<613, "schedprcs", 1>>, <<614, "saveprcs", 0>>, <<616, "condwait", 1>>,
     <<617, "wait", 1>>, <<618, "signal", 1>>, <<619, "mark", 0>>,
     <<620, "fmark", 0>>, <<621, "flushreg", 0>>, <<623, "syncf", 0>>,
     <<624, "emul", 7>>, <<625, "ediv", 7>>, <<627, "ldtime", 4>>,
     <<628, "cvtir", 13>>, <<629, "cvtilr", 13>>, <<630, "scalerl", 15>>,
     <<631, "scaler", 15>>, <<640, "atanr", 15>>, <<641, "logepr", 15>>,
     <<642, "logr", 15>>, <<643, "remr", 15>>, <<644, "cmpor", 11>>,
     <<645, "cmpr", 11>>, <<648, "sqrtr", 13>>, <<649, "expr", 13>>,
     <<650, "logbnr", 13>>, <<651, "roundr", 13>>, <<652, "sinr", 13>>,
     <<653, "cosr", 13>>, <<654, "tanr", 13>>, <<655, "classr", 9>>,
     <<656, "atanrl", 15>>, <<657, "logeprl", 15>>, <<658, "logrl", 15>>,
     <<659, "remrl", 15>>, <<660, "cmporl", 11>>, <<661, "cmprl", 11>>,
     <<664, "sqrtrl", 13>>, <<665, "exprl", 13>>, <<666, "logbnrl", 13>>,
     <<667, "roundrl", 13>>, <<668, "sinrl", 13>>, <<669, "cosrl", 13>>,
     <<670, "tanrl", 13>>, <<671, "classrl", 9>>, <<704, "cvtri", 13>>,
     <<705, "cvtril", 13>>, <<706, "cvtzri", 13>>, <<707, "cvtzril", 13>>,
     <<713, "movr", 13>>, <<729, "movrl", 13>>, <<737, "movre", 13>>,
     <<738, "cpysre", 15>>, <<739, "cpyrsre", 15>>, <<769, "mulo", 7>>,
     <<776, "remo", 7>>, <<779, "divo", 7>>, <<833, "muli", 7>>,
     <<840, "remi", 7>>, <<841, "modi", 7>>, <<843, "divi", 7>>,
     <<896, "addono", 7>>, <<897, "addino", 7>>, <<898, "subono", 7>>,
     <<899, "subino", 7>>, <<900, "selno", 7>>, <<907, "divr", 15>>,
     <<908, "mulr", 15>>, <<909, "subr", 15>>, <<911, "addr", 15>>,
     <<912, "addog", 7>>, <<913, "addig", 7>>, <<914, "subog", 7>>,
     <<915, "subig", 7>>, <<916, "selg", 7>>, <<923, "divrl", 15>>,
     <<924, "mulrl", 15>>, <<925, "subrl", 15>>, <<927, "addrl", 15>>,
     <<928, "addoe", 7>>, <<929, "addie", 7>>, <<930, "suboe", 7>>,
     <<931, "subie", 7>>, <<932, "sele", 7>>, <<944, "addoge", 7>>,
     <<945, "addige", 7>>, <<946, "suboge", 7>>, <<947, "subige", 7>>,
     <<948, "selge", 7>>, <<960, "addol", 7>>, <<961, "addil", 7>>,
     <<962, "subol", 7>>, <<963, "subil", 7>>, <<964, "sell", 7>>,
     <<976, "addone", 7>>, <<977, "addine", 7>>, <<978, "subone", 7>>,
     <<979, "subine", 7>>, <<980, "selne", 7>>, <<992, "addole", 7>>,
     <<993, "addile", 7>>, <<994, "subole", 7>>, <<995, "subile", 7>>,
     <<996, "selle", 7>>, <<1008, "addoo", 7>>, <<1009, "addio", 7>>,
     <<1010, "suboo", 7>>, <<1011, "subio", 7>>, <<1012, "selo", 7>>}

get_arg(M, S, i, fp) ==
    IF S = 1 THEN (IF fp = 1 THEN fregs[i + 1] ELSE sregs[i + 1])
    ELSE IF M = 1 THEN lits[i + 1] ELSE regs[i + 1]

reg_op(prefix, M, S, reg, fp) == prefix \o get_arg(M, S, reg, fp)

i960_inval(len, op, disp) ==
    IF len = 8
    THEN <<".word\t0x" \o Hex8(op) \o ", 0x" \o Hex8(disp), len>>
    ELSE <<"word\t0x" \o Hex8(op), len>>

dasm_ctrl(at, op, disp) ==
    LET i == u32_extract(op, 24, 5)
        T == u32_bit_select(op, 1)
        R == u32_bit_select(op, 0)
        e == tabent(ctrl_map, i)
    IN  IF e.name = "" \/ R = 1 THEN i960_inval(4, op, disp)
        ELSE <<e.name \o (IF T = 1 THEN ".f" ELSE "")
                 \o (IF e.args # 0 THEN label("\t", Add32(at, disp)) ELSE ""),
               4>>

dasm_cobr(at, op, disp) ==
    LET i  == u32_extract(op, 24, 5)
        c  == u32_extract(op, 19, 5)
        b  == u32_extract(op, 14, 5)
        a  == c
        S3 == u32_bit_select(op, 13)
        M1 == S3
        T  == u32_bit_select(op, 1)
        S2 == u32_bit_select(op, 0)
        e  == tabent(cobr_map, i)
    IN  IF e.name = "" THEN i960_inval(4, op, disp)
        ELSE <<e.name \o (IF T = 1 THEN ".f" ELSE "")
                 \o (IF i >= 16
                     THEN reg_op("\t", M1, 0, a, 0) \o reg_op(", ", 0, S2, b, 0)
                              \o label(", ", Add32(at, disp))
                     ELSE reg_op("\t", 0, S3, c, 0)),
               4>>

\* F[mode]: 4 the offset, 2 the base, 1 the index, 8 a second word
mem_F == <<4, 4, 4, 4, 2, 8, 0, 3, 6, 6, 6, 6, 12, 14, 13, 15>>

dasm_mem(at, op, disp) ==
    LET i     == u32_extract(op, 24, 7)
        c     == u32_extract(op, 19, 5)
        b     == u32_extract(op, 14, 5)
        mode  == u32_extract(op, 10, 4)
        a     == u32_extract(op, 0, 5)
        S2    == u32_bit_select(op, 6)
        S1    == u32_bit_select(op, 5)
        scale == 2 ^ u32_extract(op, 7, 3)
        base  == get_arg(0, S2, b, 0)
        index == get_arg(0, S1, a, 0)
        F     == mem_F[mode + 1]
        has(k) == (F \div k) % 2 = 1
        len   == IF has(8) THEN 8 ELSE 4
        e     == tabent(mem_map, i)
    IN  IF e.name = "" \/ mode = 6 THEN i960_inval(len, op, disp)
        ELSE <<e.name \o "\t"
                 \o (IF e.args % 2 = 1 THEN get_arg(0, 0, c, 0) \o ", " ELSE "")
                 \o (IF mode = 5 THEN label("", Add32(Add32(at, 8), disp))
                     ELSE "")
                 \o (IF has(4) THEN imm("", disp) ELSE "")
                 \o (IF has(2) THEN "(" \o base \o ")" ELSE "")
                 \o (IF has(1)
                     THEN (IF scale = 1 THEN "[" \o index \o "]"
                           ELSE "[" \o index \o "*" \o Dec(scale) \o "]")
                     ELSE "")
                 \o (IF (e.args \div 2) % 2 = 1
                     THEN ", " \o get_arg(0, 0, c, 0) ELSE ""),
               len>>

dasm_reg(at, op, disp) ==
    LET i  == 16 * u32_extract(op, 24, 6) + u32_extract(op, 7, 4)
        e  == tabent(reg_map, i)
        c  == u32_extract(op, 19, 5)
        b  == u32_extract(op, 14, 5)
        a  == u32_extract(op, 0, 5)
        S3 == u32_bit_select(op, 13)
        M2 == u32_bit_select(op, 12)
        M1 == u32_bit_select(op, 11)
        S2 == u32_bit_select(op, 6)
        S1 == u32_bit_select(op, 5)
        fp == (e.args \div 8) % 2
        A1 == e.args % 2 = 1
        A2 == (e.args \div 2) % 2 = 1
        A4 == (e.args \div 4) % 2 = 1
    IN  IF e.name = "" THEN i960_inval(4, op, disp)
        ELSE <<e.name
                 \o (IF A1 THEN reg_op("\t", M1, S1, a, fp) ELSE "")
                 \o (IF A2 THEN reg_op(IF A1 THEN ", " ELSE "\t", M2, S2, b, fp)
                     ELSE "")
                 \o (IF A4 THEN reg_op(IF A1 \/ A2 THEN ", " ELSE "\t",
                                       0, S3, c, fp)
                     ELSE ""),
               4>>

i960_ctrl_disp(op) ==
    LET disp == And32(op, 16777212)
    IN  IF u32_bit_select(op, 23) = 1 THEN disp - 16777216 ELSE disp

i960_cobr_disp(op) ==
    LET disp == And32(op, 8188)
    IN  IF u32_bit_select(op, 12) = 1 THEN disp - 8192 ELSE disp

i960_mem_disp(op, disp) ==
    IF u32_bit_select(op, 12) = 1 THEN disp ELSE And32(op, 4095)

i960_dasm(at, op, disp) ==
    LET line == u32_extract(op, 28, 4)
    IN  IF line >= 8 THEN dasm_mem(at, op, i960_mem_disp(op, disp))
        ELSE IF line >= 4 THEN dasm_reg(at, op, disp)
        ELSE IF line >= 2 THEN dasm_cobr(at, op, i960_cobr_disp(op))
        ELSE dasm_ctrl(at, op, i960_ctrl_disp(op))

(***************************************************************************)
(* The machine.  One action is one instruction: the fetch advances ip past *)
(* the instruction, the decoder reads the operands and the handler of the  *)
(* format runs to its end.  hist keeps, for every instruction executed,    *)
(* its opcode and encoding, its operands, the state its handler started    *)
(* from (pre) and the state it left (post, with the calls it made to the   *)
(* host in post.ev); left is the number of instructions the run has still  *)
(* to execute.                                                             *)
(***************************************************************************)
MaxSteps == 2

Cur == [r |-> r, ip |-> ip, ac |-> ac, pc |-> pc, tc |-> tc, mem |-> mem,
        ev |-> <<>>]

\* the fetch leaves ip at the next instruction before the handler runs
Fetched == [Cur EXCEPT !.ip = Add32(ip, 4)]

\* the host's divide exception ended the run
Trapped == Len(Calls(ev, "trap")) > 0

CanStep == left > 0 /\ ~Trapped

Exec(name, opc, op, a, b, c, efa, o2) ==
    /\ r'   = o2.r
    /\ ip'  = o2.ip
    /\ ac'  = o2.ac
    /\ pc'  = o2.pc
    /\ tc'  = o2.tc
    /\ mem' = o2.mem
    /\ ev'  = o2.ev
    /\ left' = left - 1
    /\ mp' = mp
    /\ listing' = listing
    /\ hist' = Append(hist, [name |-> name, opc |-> opc, op |-> op, a |-> a,
                             b |-> b, c |-> c, efa |-> efa, pre |-> Fetched,
                             post |-> o2])

\* encodings: the opcode byte in bits 24..31; REG keeps the low four bits of
\* its 12-bit opcode in bits 7..10, src/dst in 19..23, src2 in 14..18 and
\* src1 in 0..4; COBR keeps src1 in 19..23, src2 in 14..18, M1 in bit 13
TopByte(opc) == Wrap((IF opc >= 128 THEN opc - 256 ELSE opc) * 256, 0)

RegEnc(opc, c, bi, ai) ==
    TopByte(opc \div 16) + c * (2 ^ 19) + bi * (2 ^ 14) + (opc % 16) * 128 + ai

CtrlEnc(opc, disp) == TopByte(opc) + (disp % (2 ^ 24))

CobrEnc(opc, ai, bi, m1, disp) ==
    TopByte(opc) + ai * (2 ^ 19) + bi * (2 ^ 14) + m1 * (2 ^ 13)
        + (disp % (2 ^ 13))

MemEnc(opc, c) == TopByte(opc) + c * (2 ^ 19)

\* the registers the instructions of a run name: src1, src2 and src/dst
SrcA == {4}
SrcB == {5}
Dst  == {6}

\* displacements, effective addresses and the outcomes of undefined behaviour
Disps == {256, -16}
Efas  == {8192}
UBs   == {"wrap", "trap"}

\* 590 addo, 591 addi, 592 subo, 593 subi, 594 cmpob .. 597 cmpis
RegAddx ==
    /\ CanStep
    /\ \E opc \in 1424 .. 1431, ai \in SrcA, bi \in SrcB, c \in Dst :
         LET op == RegEnc(opc, c, bi, ai)
         IN  Exec("reg_addx", opc, op, r[ai], r[bi], c, 0,
                  reg_addx(Fetched, op, r[ai], r[bi], c))

\* 598 shro, 59A shrdi, 59B shri, 59C shlo, 59D rotate, 59E shli
RegShift ==
    /\ CanStep
    /\ \E opc \in {1432, 1434, 1435, 1436, 1437, 1438},
          ai \in SrcA, bi \in SrcB, c \in Dst :
         LET op == RegEnc(opc, c, bi, ai)
         IN  Exec("reg_shift", opc, op, r[ai], r[bi], c, 0,
                  reg_59(Fetched, op, r[ai], r[bi], c))

\* 585, 599, 59F, 5B1: sub-opcodes with no instruction; 586 xor, 5CC mov,
\* 5D8 eshro
RegCore ==
    /\ CanStep
    /\ \E opc \in {1413, 1433, 1439, 1457, 1414, 1484, 1496},
          ai \in SrcA, bi \in SrcB, c \in Dst :
         LET op == RegEnc(opc, c, bi, ai)
         IN  Exec("reg_core", opc, op, r[ai], r[bi], c, 0,
                  reg_core(Fetched, op, r[ai], r[bi], c))

\* 5A0 cmpo, 5A1 cmpi, 5A2 concmpo, 5A3 concmpi, 5A4 cmpinco .. 5A7 cmpdeci,
\* 5AC scanbyte, 5AD bswap, 5AE chkbit
Reg5A ==
    /\ CanStep
    /\ \E opc \in (1440 .. 1447) \cup {1452, 1453, 1454},
          ai \in SrcA, bi \in SrcB, c \in Dst :
         LET op == RegEnc(opc, c, bi, ai)
         IN  Exec("reg_5A", opc, op, r[ai], r[bi], c, 0,
                  reg_5A(Fetched, op, r[ai], r[bi], c))

\* 5A2 concmpo, 5A3 concmpi with the src2 of the compares as src1 and the
\* next register as src2: the second instruction of cmp lo, x; concmp x, hi
RegConcmp ==
    /\ CanStep
    /\ \E opc \in {1442, 1443}, ai \in SrcB, bi \in Dst, c \in Dst :
         LET op == RegEnc(opc, c, bi, ai)
         IN  Exec("reg_5A", opc, op, r[ai], r[bi], c, 0,
                  reg_5A(Fetched, op, r[ai], r[bi], c))

\* 5B0 addc, 5B2 subc, 5B4 intdis, 5B5 inten
Reg5B ==
    /\ CanStep
    /\ \E opc \in {1456, 1458, 1460, 1461}, ai \in SrcA, bi \in SrcB, c \in Dst :
         LET op == RegEnc(opc, c, bi, ai)
         IN  Exec("reg_5B", opc, op, r[ai], r[bi], c, 0,
                  reg_5B(Fetched, op, r[ai], r[bi], c))

\* 610 atmod, 612 atadd
RegAtomic ==
    /\ CanStep
    /\ \E opc \in {1552, 1554}, ai \in SrcA, bi \in SrcB, c \in Dst :
         LET op == RegEnc(opc, c, bi, ai)
         IN  Exec("reg_atomic", opc, op, r[ai], r[bi], c, 0,
                  reg_atomic(Fetched, op, r[ai], r[bi], c))

\* 640 spanbit, 641 scanbit, 645 modac
Reg64 ==
    /\ CanStep
    /\ \E opc \in {1600, 1601, 1605}, ai \in SrcA, bi \in SrcB, c \in Dst :
         LET op == RegEnc(opc, c, bi, ai)
         IN  Exec("reg_64", opc, op, r[ai], r[bi], c, 0,
                  reg_64(Fetched, op, r[ai], r[bi], c))

\* 650 modify, 651 extract
Reg65 ==
    /\ CanStep
    /\ \E opc \in {1616, 1617}, ai \in SrcA, bi \in SrcB, c \in Dst :
         LET op == RegEnc(opc, c, bi, ai)
         IN  Exec("reg_65", opc, op, r[ai], r[bi], c, 0,
                  reg_65(Fetched, op, r[ai], r[bi], c))

\* 654 modtc
RegModtc ==
    /\ CanStep
    /\ \E opc \in {1620}, ai \in SrcA, bi \in SrcB, c \in Dst :
         LET op == RegEnc(opc, c, bi, ai)
         IN  Exec("reg_modtc", opc, op, r[ai], r[bi], c, 0,
                  reg_modtc(Fetched, op, r[ai], r[bi], c))

\* 655 modpc
RegModpc ==
    /\ CanStep
    /\ \E opc \in {1621}, ai \in SrcA, bi \in SrcB, c \in Dst :
         LET op == RegEnc(opc, c, bi, ai)
         IN  Exec("reg_modpc", opc, op, r[ai], r[bi], c, 0,
                  reg_modpc(Fetched, op, r[ai], r[bi], c))

\* 671 ediv
RegEdiv ==
    /\ CanStep
    /\ \E opc \in {1649}, ai \in SrcA, bi \in SrcB, c \in Dst :
         LET op == RegEnc(opc, c, bi, ai)
         IN  Exec("reg_ediv", opc, op, r[ai], r[bi], c, 0,
                  reg_ediv(Fetched, op, r[ai], r[bi], c))

\* 708 remo, 70B divo
RegDivo ==
    /\ CanStep
    /\ \E opc \in {1800, 1803}, ai \in SrcA, bi \in SrcB, c \in Dst :
         LET op == RegEnc(opc, c, bi, ai)
         IN  Exec("reg_divo", opc, op, r[ai], r[bi], c, 0,
                  reg_divo(Fetched, op, r[ai], r[bi], c))

\* 748 remi, 749 modi
RegRemi ==
    /\ CanStep
    /\ \E opc \in {1864, 1865}, ai \in SrcA, bi \in SrcB, c \in Dst :
         \E ub \in IF I32DivUB(r[ai], r[bi]) THEN UBs ELSE {"wrap"} :
           LET op == RegEnc(opc, c, bi, ai)
           IN  Exec("reg_remi", opc, op, r[ai], r[bi], c, 0,
                    reg_remi(Fetched, op, r[ai], r[bi], c, ub))

\* 701 mulo
RegMulo ==
    /\ CanStep
    /\ \E opc \in {1793}, ai \in SrcA, bi \in SrcB, c \in Dst :
         LET op == RegEnc(opc, c, bi, ai)
         IN  Exec("reg_mulo", opc, op, r[ai], r[bi], c, 0,
                  reg_mulo(Fetched, op, r[ai], r[bi], c))

\* 741 muli
RegMuli ==
    /\ CanStep
    /\ \E opc \in {1857}, ai \in SrcA, bi \in SrcB, c \in Dst :
         \E ub \in IF I64MulUB(r[ai], r[bi]) THEN MulUBs ELSE {"wrap"} :
           LET op == RegEnc(opc, c, bi, ai)
           IN  Exec("reg_muli", opc, op, r[ai], r[bi], c, 0,
                    reg_muli(Fetched, op, r[ai], r[bi], c, ub))

\* 74B divi
RegDivi ==
    /\ CanStep
    /\ \E opc \in {1867}, ai \in SrcA, bi \in SrcB, c \in Dst :
         \E ub \in IF I32DivUB(r[ai], r[bi]) THEN UBs ELSE {"wrap"} :
           LET op == RegEnc(opc, c, bi, ai)
           IN  Exec("reg_divi", opc, op, r[ai], r[bi], c, 0,
                    reg_divi(Fetched, op, r[ai], r[bi], c, ub))

\* 7x0 addo<cc>, 7x1 addi<cc>, 7x3 subi<cc>, 7x4 sel<cc>, for the conditions e (x = A) and ne (x = D)
RegCond ==
    /\ CanStep
    /\ \E opc \in {1920 + 16 * cc + f : cc \in {2, 5}, f \in {1, 3, 4}}, ai \in SrcA, bi \in SrcB, c \in Dst :
         LET op == RegEnc(opc, c, bi, ai)
         IN  Exec("reg_cond", opc, op, r[ai], r[bi], c, 0,
                  reg_cond(Fetched, op, r[ai], r[bi], c))

\* 04, 0D, 0E: CTRL opcodes with no instruction
CtrlReserved ==
    /\ CanStep
    /\ \E opc \in {4, 13, 14}, disp \in {256} :
         LET op == CtrlEnc(opc, disp)
         IN  Exec("ctrl_reserved", opc, op, 0, 0, 0,
                  Add32(ip, SignedField(op, 8)), i960_ctrl(Fetched, op, ip))

\* 28, 2F: COBR opcodes with no instruction
CobrReserved ==
    /\ CanStep
    /\ \E opc \in {40, 47}, c \in Dst, bi \in SrcB :
         LET op == CobrEnc(opc, c, bi, 0, 64)
         IN  Exec("cobr_reserved", opc, op, r[c], r[bi], c, Add32(ip, 4 + 64),
                  i960_cobr(Fetched, op, ip))

\* 08 b
CtrlB ==
    /\ CanStep
    /\ \E opc \in {8}, disp \in Disps :
         LET op == CtrlEnc(opc, disp)
         IN  Exec("b", opc, op, 0, 0, 0, Add32(ip, SignedField(op, 8)),
                  i960_ctrl(Fetched, op, ip))

\* 09 call
CtrlCall ==
    /\ CanStep
    /\ \E opc \in {9}, disp \in Disps :
         LET op == CtrlEnc(opc, disp)
         IN  Exec("call", opc, op, 0, 0, 0, Add32(ip, SignedField(op, 8)),
                  i960_ctrl(Fetched, op, ip))

\* 0A ret
CtrlRet ==
    /\ CanStep
    /\ \E opc \in {10}, disp \in {0} :
         LET op == CtrlEnc(opc, disp)
         IN  Exec("ret", opc, op, 0, 0, 0, Add32(ip, SignedField(op, 8)),
                  i960_ctrl(Fetched, op, ip))

\* 0B bal
CtrlBal ==
    /\ CanStep
    /\ \E opc \in {11}, disp \in {256} :
         LET op == CtrlEnc(opc, disp)
         IN  Exec("bal", opc, op, 0, 0, 0, Add32(ip, SignedField(op, 8)),
                  i960_ctrl(Fetched, op, ip))

\* 10 bno .. 17 bo
CtrlBcc ==
    /\ CanStep
    /\ \E opc \in 16 .. 23, disp \in {256} :
         LET op == CtrlEnc(opc, disp)
         IN  Exec("bcc", opc, op, 0, 0, 0, Add32(ip, SignedField(op, 8)),
                  i960_ctrl(Fetched, op, ip))

\* 18 faultno, 1A faulte, 1D faultne
CtrlFaultcc ==
    /\ CanStep
    /\ \E opc \in {24, 26, 29}, disp \in {0} :
         LET op == CtrlEnc(opc, disp)
         IN  Exec("faultcc", opc, op, 0, 0, 0, Add32(ip, SignedField(op, 8)),
                  i960_ctrl(Fetched, op, ip))

\* 20 testno, 21 testg, 26 testle
CobrTestcc ==
    /\ CanStep
    /\ \E opc \in {32, 33, 38}, c \in Dst, bi \in SrcB :
         LET op == CobrEnc(opc, c, bi, 0, 0)
         IN  Exec("testcc", opc, op, r[c], r[bi], c, 0,
                  i960_cobr(Fetched, op, ip))

\* 30 bbc, 37 bbs, 32 cmpobe, 3C cmpibl
CobrBranch ==
    /\ CanStep
    /\ \E opc \in {48, 55, 50, 60}, ai \in SrcA, bi \in SrcB :
         LET op == CobrEnc(opc, ai, bi, 0, 64)
         IN  Exec("cobr_branch", opc, op, r[ai], r[bi], 0, Add32(ip, 4 + 64),
                  i960_cobr(Fetched, op, ip))

\* 84 bx, 85 balx, 86 callx, 8C lda
MemFuncs ==
    /\ CanStep
    /\ \E opc \in {132, 133, 134, 140}, efa \in Efas, c \in Dst :
         LET op == MemEnc(opc, c)
         IN  Exec("mem_funcs", opc, op, 0, 0, c, efa, mem_funcs(Fetched, op, efa, c))

\* 82 stob, C2 stib (mem_stb) and 8A stos, CA stis (mem_sts)
MemStore ==
    /\ CanStep
    /\ \E opc \in {130, 194, 138, 202}, efa \in Efas, c \in SrcB :
         LET op == MemEnc(opc, c)
         IN  Exec("mem_store", opc, op, 0, 0, c, efa,
                  IF u32_bit_select(op, 24 + 3) = 1
                  THEN mem_sts(Fetched, op, efa, c)
                  ELSE mem_stb(Fetched, op, efa, c))

\* 80 ldob, C0 ldib, 88 ldos, C8 ldis and 98 ldl (mem_load); the bytes at
\* LoadEfas are 01h 06h, 83h 88h and FBh 00h
LoadEfas == {8192, 8192 + 26, 8192 + 50}

MemLoad ==
    /\ CanStep
    /\ \E opc \in {128, 192, 136, 200, 152}, efa \in LoadEfas, c \in Dst :
         LET op == MemEnc(opc, c)
         IN  Exec("mem_load", opc, op, 0, 0, c, efa,
                  mem_load(Fetched, op, efa, c))

Next ==
    \/ RegAddx
    \/ RegShift
    \/ Reg5A
    \/ RegConcmp
    \/ Reg5B
    \/ RegAtomic
    \/ Reg64
    \/ Reg65
    \/ RegModtc
    \/ RegModpc
    \/ RegEdiv
    \/ RegDivo
    \/ RegMulo
    \/ RegMuli
    \/ RegRemi
    \/ RegDivi
    \/ RegCond
    \/ RegCore
    \/ CtrlReserved
    \/ CobrReserved
    \/ CtrlB
    \/ CtrlCall
    \/ CtrlRet
    \/ CtrlBal
    \/ CtrlBcc
    \/ CtrlFaultcc
    \/ CobrTestcc
    \/ CobrBranch
    \/ MemFuncs
    \/ MemStore
    \/ MemLoad

\* no second processor: the state of mp in the runs of one processor
MpIdle == [core |-> <<>>, lock |-> 0, log |-> <<>>, init |-> 0]

\* the register file a run starts from: a frame at 1000h with the stack
\* pointer sp, and the operands x (r4), y (r5) and z (r6)
Regs0(sp, x, y, z) ==
    [i \in 0 .. 31 |->
        CASE i = I960_PFP -> 3968 + 2
          [] i = I960_SP  -> sp
          [] i = I960_FP  -> 4096
          [] i = 4        -> x
          [] i = 5        -> y
          [] i = 6        -> z
          [] OTHER        -> 256 * (i + 1) + i]

InitWith(sps, xs, ys, zs, acs, pcs, n) ==
    /\ \E sp \in sps, x \in xs, y \in ys, z \in zs : r = Regs0(sp, x, y, z)
    /\ ip = 32768
    /\ ac \in acs
    /\ pc \in pcs
    /\ tc = 0
    /\ mem = <<>>
    /\ ev = <<>>
    /\ hist = <<>>
    /\ left = n
    /\ mp = MpIdle
    /\ listing = <<>>

(***************************************************************************)
(* Two processors over one memory image.  Each executes one atomic         *)
(* instruction (reg_atomic) on the word at MpAddr, one call to the host at *)
(* a time; mem is the shared image and mp holds, for each processor, the   *)
(* number k of calls made so far, its operands a and b, the word old it    *)
(* read and its register rc (r[c]), and with them the holder of the lock   *)
(* (0: free) and the log of the calls <<processor, call, holder before>>.  *)
(* The lock is a mutual-exclusion lock: i960_lock waits until it is free.  *)
(***************************************************************************)
MpAddr == 8192

\* the calls reg_atomic makes to the host, in order: i960_read_lock, then
\* i960_write_unlock
AtomicCalls_unlock_first == <<"lock", "read", "unlock", "write">>

AtomicCalls == <<"lock", "read", "write", "unlock">>

\* the lock of the host: free for a processor to take it
MpLockFree(s) == s.lock = 0

\* processor i makes the host call kind: <<mp', mem'>>
MpCall(kind, s, m, i) ==
    LET me  == s.core[i]
        src == And32(me.a, Not32(3))
        new == IF u32_bit_select(me.op, 7 + 1) = 1 THEN Add32(me.old, me.b)
               ELSE u32_modify(me.old, me.rc, me.b)
    IN  CASE kind = "lock"   -> <<[s EXCEPT !.lock = i], m>>
          [] kind = "read"   -> <<[s EXCEPT !.core[i].old = ReadW(m, src)], m>>
          [] kind = "write"  -> <<s, WriteW(m, src, new)>>
          [] kind = "unlock" -> <<[s EXCEPT !.lock = 0], m>>

\* the next call of processor i; after the last one r[c] is set to old
reg_atomic_step(s, m, i) ==
    LET kind == AtomicCalls[s.core[i].k + 1]
        res  == MpCall(kind, s, m, i)
        last == s.core[i].k + 1 = Len(AtomicCalls)
        s1   == [res[1] EXCEPT !.core[i].k = @ + 1,
                               !.log = Append(@, <<i, kind, s.lock>>)]
    IN  <<IF last THEN [s1 EXCEPT !.core[i].rc = s1.core[i].old] ELSE s1,
          res[2]>>

MpDone(i) == mp.core[i].k = Len(AtomicCalls)

MpStep ==
    \E i \in DOMAIN mp.core :
        /\ ~MpDone(i)
        /\ AtomicCalls[mp.core[i].k + 1] = "lock" => MpLockFree(mp)
        /\ mp'  = reg_atomic_step(mp, mem, i)[1]
        /\ mem' = reg_atomic_step(mp, mem, i)[2]
        /\ UNCHANGED <<r, ip, ac, pc, tc, ev, hist, left, listing>>

\* the words in memory and the addends the processors start with
MpWords   == {0, -1, MaxI32, 7}
MpAddends == {1, -1, MinI32, 5}

\* both execute atadd (612) on the word at MpAddr, through addresses that
\* differ in their low bits
InitMP ==
    /\ r = Regs0(4177, 0, 0, 7)
    /\ ip = 32768
    /\ ac = 0
    /\ pc = 0
    /\ tc = 0
    /\ ev = <<>>
    /\ hist = <<>>
    /\ left = 0
    /\ listing = <<>>
    /\ \E w \in MpWords, b1 \in MpAddends, b2 \in MpAddends :
         /\ mem = WriteW(<<>>, MpAddr, w)
         /\ mp = [core |-> [i \in 1 .. 2 |->
                              [k |-> 0, op |-> RegEnc(1554, 6, 5, 4),
                               a |-> MpAddr + 3 * (i - 1),
                               b |-> IF i = 1 THEN b1 ELSE b2,
                               old |-> 0, rc |-> 7]],
                  lock |-> 0, log |-> <<>>, init |-> w]

NextMP == MpStep

SpecMP == InitMP /\ [][NextMP]_vars

\* programs: up to MaxSteps instructions in sequence
Init == InitWith({4177}, {-1, 1}, {MinI32}, {7}, {4097, 2}, {0, 2}, MaxSteps)

Spec == Init /\ [][Next]_vars

\* single instructions over a wide range of operands and control registers
\* (16909320 is 01020408h, four different bytes with no bit in common)
WideA  == {0, 1, -1, 5, 31, MaxI32, MinI32}
WideB  == {0, 1, -1, 3, 16909320, MaxI32, MinI32}
WideAC == {0, 1, 2, 4, 7, 4096, 4096 + 2, 4096 + 256 + 4}

InitOps == InitWith({4160, 4177}, WideA, WideB, {7}, WideAC, {0, 2}, 1)

SpecOps == InitOps /\ [][Next]_vars

\* programs of compare instructions over a range of bounds and values
RangeVals == {0, 1, 5, -1, MinI32}

InitCompare ==
    InitWith({4177}, RangeVals, RangeVals, RangeVals, {4096 + 4}, {0},
             MaxSteps)

NextCompare ==
    \/ Reg5A
    \/ RegConcmp

SpecCompare == InitCompare /\ [][NextCompare]_vars

\* programs of byte and short stores and loads: the stored values lie on
\* both sides of the bounds of int8_t and int16_t
StoreVals == {0, -1, 127, 128, -128, -129, 32767, 32768, -32768, -32769,
              MaxI32, MinI32}

InitMem ==
    InitWith({4177}, {8192}, StoreVals, {7}, {4096 + 2, 2}, {0}, MaxSteps)

NextMem ==
    \/ MemStore
    \/ MemLoad

SpecMem == InitMem /\ [][NextMem]_vars

\* programs that start in user mode or in supervisor mode, with a mask for
\* modpc (r5) that is 0 or selects the execution mode bit
InitPriv == InitWith({4177}, {1}, {0, 2}, {7}, {4097}, {0, 2}, MaxSteps)

SpecPriv == InitPriv /\ [][Next]_vars

\* a listing: up to MaxWords instructions disassembled one after the other
\* from address 8000h, each where the one before it ended.  listing holds,
\* for
\* each, its address at, its word op, the word disp that follows it, and
\* the text and the length i960_dasm gave
MaxWords == 2

MemWord(opc, c, b, mode, scale, a) ==
    TopByte(opc) + c * (2 ^ 19) + b * (2 ^ 14) + mode * (2 ^ 10)
        + scale * 128 + a

\* b, b.f, b with bit 0 set, opcodes 00 and 0C, ret; testno, opcode 28,
\* bbc; addo, opcode 585, cmpo, not; ldob 16, ld 8(r5), lda at ip + 8,
\* ld (r5)[r4*4], ldob in mode 6, st to an absolute address, opcode 81 in
\* a mode of one word and in a mode of two, ldq (r5)[r4]
DasmOps ==
    {CtrlEnc(8, 256), CtrlEnc(8, 258), CtrlEnc(8, 257), CtrlEnc(0, 0),
     CtrlEnc(12, -16), CtrlEnc(10, 0),
     CobrEnc(32, 6, 0, 0, 0), CobrEnc(40, 6, 0, 0, 0),
     CobrEnc(48, 4, 5, 1, 64),
     RegEnc(1424, 6, 5, 4), RegEnc(1413, 6, 5, 4), RegEnc(1440, 6, 5, 4),
     RegEnc(1418, 6, 5, 4),
     MemWord(128, 6, 0, 0, 0, 16), MemWord(144, 6, 5, 8, 0, 8),
     MemWord(140, 6, 0, 5, 0, 0), MemWord(144, 6, 5, 7, 2, 4),
     MemWord(128, 6, 5, 6, 0, 0), MemWord(146, 6, 0, 12, 0, 0),
     MemWord(129, 6, 0, 0, 0, 16), MemWord(129, 6, 5, 13, 0, 0),
     MemWord(176, 6, 5, 7, 0, 4)}

DasmWords == {4660, -16}

DasmAt ==
    IF listing = <<>> THEN 32768
    ELSE listing[Len(listing)].at + listing[Len(listing)].len

Dasm ==
    /\ Len(listing) < MaxWords
    /\ \E op \in DasmOps, disp \in DasmWords :
         LET res == i960_dasm(DasmAt, op, disp)
         IN  listing' = Append(listing,
                               [at |-> DasmAt, op |-> op, disp |-> disp,
                                text |-> res[1], len |-> res[2]])
    /\ UNCHANGED <<r, ip, ac, pc, tc, mem, ev, hist, left, mp>>

InitDasm == InitWith({4177}, {1}, {MinI32}, {7}, {2}, {0}, 0)

NextDasm == Dasm

SpecDasm == InitDasm /\ [][NextDasm]_vars

(***************************************************************************)
(* Properties.  An instruction of the run is an index of hist; the state   *)
(* at the instruction boundary after it is hist[i].post.                   *)
(***************************************************************************)
Steps == DOMAIN hist

\* the condition code of an AC value, and one bit of a word
CC(x) == x % 8

Bit(x, n) == IF n = 31 THEN (IF x < 0 THEN 1 ELSE 0) ELSE (x \div (2 ^ n)) % 2

\* AC when the run started
InitialAC == IF hist = <<>> THEN ac ELSE hist[1].pre.ac

CCValid(x) == CC(x) \in {0, 1, 2, 4}

\* addc, subc and modac: the instructions that write the condition code
\* from something else than a comparison or a test.  reg_5B sends every
\* opcode 5Bx with bit 2 of x clear to reg_addc: addc 5B0 and subc 5B2, and
\* with them 5B1, 5B3 and 5B8 .. 5BB
IsCarryOp(h) == h.opc \div 16 = 91 /\ (h.opc \div 4) % 2 = 0

IsModac(h) == h.opc = 1605

\* C1, as stated: from a condition code of {0, 1, 2, 4} every instruction
\* boundary of every run, addc / subc and modac included, has a condition
\* code of {0, 1, 2, 4}
C1_AsStated == CCValid(InitialAC) => CCValid(ac)

\* C1, amended: from a condition code of {0, 1, 2, 4}, the condition code
\* at every boundary of a run without addc, subc and modac is one of
\* {0, 1, 2, 4}; addc and subc leave carry and overflow in it, a code of
\* 0 .. 3
C1_CondCode ==
    /\ (CCValid(InitialAC) /\ \A i \in Steps : ~IsCarryOp(hist[i]) /\ ~IsModac(hist[i]))
           => \A i \in Steps : CCValid(hist[i].post.ac)
    /\ \A i \in Steps : IsCarryOp(hist[i]) => CC(hist[i].post.ac) \in 0 .. 3

\* two instructions, neither addc, subc nor modac, that both changed the
\* condition code
C1_Witness ==
    /\ Len(hist) = 2
    /\ \A i \in Steps :
         /\ ~IsCarryOp(hist[i]) /\ ~IsModac(hist[i])
         /\ CC(hist[i].post.ac) # CC(hist[i].pre.ac)

IsCall(h) == h.opc \in {9, 134}

IsRet(h) == h.opc = 10

\* C2, as stated: call and then at once ret leaves every local register
\* r0 .. r15 as it was before the call, and ip at the return address the
\* call stored in RIP
C2_CallRet ==
    \A i \in Steps :
        (i + 1 \in Steps /\ IsCall(hist[i]) /\ IsRet(hist[i + 1]))
            => /\ \A k \in 0 .. 15 : hist[i + 1].post.r[k] = hist[i].pre.r[k]
               /\ hist[i + 1].post.ip = hist[i].post.r[I960_RIP]
               /\ hist[i + 1].post.ip = hist[i].pre.ip

\* C3: after call or callx from SP0, FP0 and ip0: FP is SP0 rounded up to
\* a multiple of 64, SP = FP + 64, PFP = FP0, RIP = ip0 and ip = efa
C3_CallFrame ==
    \A i \in Steps :
        IsCall(hist[i]) =>
            LET p == hist[i].pre
                q == hist[i].post
            IN  /\ q.r[I960_FP] = 64 * ((p.r[I960_SP] + 63) \div 64)
                /\ q.r[I960_FP] % 64 = 0
                /\ q.r[I960_SP] = q.r[I960_FP] + 64
                /\ q.r[I960_PFP] = p.r[I960_FP]
                /\ q.r[I960_RIP] = p.ip
                /\ q.ip = hist[i].efa

\* a callx from a stack pointer that is no multiple of 64
C3_Witness ==
    \E i \in Steps :
        /\ hist[i].opc = 134
        /\ hist[i].pre.r[I960_SP] % 64 # 0
        /\ hist[i].post.r[I960_FP] > hist[i].pre.r[I960_SP]

\* C4, as stated: after call from FP0 the word at FP0 + 4 * i holds local
\* register r_i as it was when the window was stored (r2 the return ip),
\* and nothing but the 64 bytes FP0 .. FP0 + 63 is written
C4_SavedWindow ==
    \A i \in Steps :
        IsCall(hist[i]) =>
            LET p   == hist[i].pre
                q   == hist[i].post
                fp0 == p.r[I960_FP]
                loc == [p.r EXCEPT ![I960_RIP] = p.ip]
            IN  /\ \A k \in 0 .. 15 : ReadW(q.mem, fp0 + 4 * k) = loc[k]
                /\ \A n \in DOMAIN q.mem : n \in DOMAIN p.mem \/ n \in fp0 .. fp0 + 63

\* the condition of section 4.2: cc selects the bits of the condition code
\* to test, cc = 0 tests for a condition code of 0
CondHolds(cc, accc) ==
    IF cc # 0 THEN \E n \in 0 .. 2 : Bit(cc, n) = 1 /\ Bit(accc, n) = 1
    ELSE accc = 0

\* C5, as stated: a conditional branch is taken exactly when the condition
\* of its opcode holds of AC bits 0 .. 2, whatever the higher bits of AC
C5_CheckCond ==
    \A i \in Steps :
        hist[i].opc \in 16 .. 23 =>
            LET taken == hist[i].post.ip = hist[i].efa
            IN  taken <=> CondHolds(hist[i].opc % 8, CC(hist[i].pre.ac))

\* the AC values at which the instruction called i960_on_overflow
Detected(h) ==
    [n \in 1 .. Len(Calls(h.post.ev, "overflow")) |->
        Calls(h.post.ev, "overflow")[n][3]]

\* C6: an instruction that detects integer overflow at an AC value ac0
\* with the overflow mask (bit 12) set ends with AC = ac0 with bit 8 set
\* and reports no fault; with the mask clear it reports the fault 30001h
\* once, and no other, and ends with AC = ac0
C6_OverflowPolicy ==
    \A i \in Steps :
        Detected(hist[i]) # <<>> =>
            LET ac0 == Detected(hist[i])[1]
                q   == hist[i].post
            IN  /\ Len(Detected(hist[i])) = 1
                /\ IF Bit(ac0, I960_OM_POS) = 1
                   THEN /\ Bit(q.ac, I960_OF_POS) = 1
                        /\ \A n \in 0 .. 31 :
                             n # I960_OF_POS => Bit(q.ac, n) = Bit(ac0, n)
                        /\ Faults(q.ev) = <<>>
                   ELSE /\ Faults(q.ev) = <<196609>>
                        /\ q.ac = ac0

\* cmpinci overflows with the mask set and the flag clear: the compare has
\* changed the condition code before the overflow is handled
C6_Witness ==
    \E i \in Steps :
        /\ hist[i].opc = 1445
        /\ Detected(hist[i]) # <<>>
        /\ Bit(hist[i].pre.ac, I960_OM_POS) = 1
        /\ Bit(hist[i].pre.ac, I960_OF_POS) = 0
        /\ CC(hist[i].post.ac) # CC(hist[i].pre.ac)
        /\ Bit(hist[i].post.ac, I960_OF_POS) = 1

\* a modac whose mask (src1) covers the overflow flag
ModacCoversOF(h) == IsModac(h) /\ Bit(h.a, I960_OF_POS) = 1

\* C7: once AC bit 8 is set it stays set over every run of instructions
\* none of which is a modac whose mask covers bit 8
C7_StickyOverflow ==
    \A i \in Steps :
        (/\ Bit(hist[i].pre.ac, I960_OF_POS) = 1
         /\ \A j \in Steps : j >= i => ~ModacCoversOF(hist[j]))
            => \A j \in Steps : j >= i => Bit(hist[j].post.ac, I960_OF_POS) = 1

\* the first instruction set the flag; the second, a modac whose mask does
\* not cover bit 8, changed AC and left the flag set
C7_Witness ==
    /\ Len(hist) = 2
    /\ Bit(hist[1].pre.ac, I960_OF_POS) = 0
    /\ Bit(hist[1].post.ac, I960_OF_POS) = 1
    /\ IsModac(hist[2]) /\ ~ModacCoversOF(hist[2])
    /\ hist[2].post.ac # hist[2].pre.ac
    /\ Bit(ac, I960_OF_POS) = 1

\* remo 708, divo 70B, remi 748, modi 749, divi 74B, ediv 671
IsDivide(h) == h.opc \in {1800, 1803, 1864, 1865, 1867, 1649}

\* C8, as stated: a divide or remainder instruction with divisor a = 0
\* reports the fault 30002h and leaves every destination register (r[c],
\* for ediv r[c] and r[c | 1]) as it was
C8_DivideByZero ==
    \A i \in Steps :
        (IsDivide(hist[i]) /\ hist[i].a = 0) =>
            LET p == hist[i].pre
                q == hist[i].post
                c == hist[i].c
            IN  /\ Faults(q.ev) = <<196610>>
                /\ q.r[c] = p.r[c]
                /\ hist[i].opc = 1649 => q.r[BitOr(c, 1)] = p.r[BitOr(c, 1)]

\* intdis 5B4, inten 5B5 and modpc 655 with a mask (src2) that is not 0
IsSupervisorOp(h) == h.opc \in {1460, 1461} \/ (h.opc = 1621 /\ h.b # 0)

\* C9: in user mode (pc bit 1 clear) intdis, inten and modpc with a mask
\* that is not 0 report the fault A0001h and change nothing: no register,
\* no control register, no memory, and no write is made
C9_UserMode ==
    \A i \in Steps :
        (IsSupervisorOp(hist[i]) /\ Bit(hist[i].pre.pc, I960_EM_POS) = 0) =>
            LET p == hist[i].pre
                q == hist[i].post
            IN  /\ Faults(q.ev) = <<655361>>
                /\ q.r = p.r /\ q.pc = p.pc /\ q.ac = p.ac /\ q.tc = p.tc
                /\ q.ip = p.ip
                /\ q.mem = p.mem
                /\ Writes(q.ev) = <<>>

\* a modpc with a mask that is not 0 and a new value that differs from pc
\* under it, in user mode
C9_Witness ==
    \E i \in Steps :
        /\ hist[i].opc = 1621
        /\ hist[i].b # 0
        /\ Bit(hist[i].pre.pc, I960_EM_POS) = 0
        /\ u32_modify(hist[i].pre.pc, hist[i].pre.r[hist[i].c], hist[i].b)
               # hist[i].pre.pc
        /\ Len(Faults(hist[i].post.ev)) = 1

\* b + a and b - a of two's-complement integers lie outside -2^31 .. 2^31 - 1
SumOutOfRange(a, b) ==
    (a > 0 /\ b > MaxI32 - a) \/ (a < 0 /\ b < MinI32 - a)

DiffOutOfRange(a, b) ==
    (a < 0 /\ b > MaxI32 + a) \/ (a > 0 /\ b < MinI32 + a)

\* the integer x + y reduced to 32 bits, for x + y in -2^32 .. 2^32 - 1
Reduce(x, y) ==
    IF x >= 0 /\ y > MaxI32 - x THEN (x + MinI32) + (y + MinI32)
    ELSE IF x < 0 /\ y < MinI32 - x THEN (x - MinI32) + (y - MinI32)
    ELSE x + y

\* C10, as stated: addi 591 writes b + a and subi 593 writes b - a
\* (mod 2^32) and each signals overflow exactly when the signed result is
\* out of range; addo 590 and subo 592 write the same and never signal
C10_AddSub ==
    \A i \in Steps :
        hist[i].opc \in 1424 .. 1427 =>
            LET a    == hist[i].a
                b    == hist[i].b
                q    == hist[i].post
                sub  == hist[i].opc \in {1426, 1427}
                int  == hist[i].opc \in {1425, 1427}
                out  == IF sub THEN DiffOutOfRange(a, b) ELSE SumOutOfRange(a, b)
            IN  /\ q.r[hist[i].c] = IF sub
                                    THEN (IF a = MinI32 THEN Reduce(Reduce(b, MaxI32), 1)
                                          ELSE Reduce(b, 0 - a))
                                    ELSE Reduce(b, a)
                /\ (Detected(hist[i]) # <<>>) <=> (int /\ out)

\* the product of the two's-complement integers a and b lies in
\* -2^31 .. 2^31 - 1
ProdInRange(a, b) ==
    IF a = 0 \/ b = 0 THEN TRUE
    ELSE IF a > 0 /\ b > 0 THEN a <= MaxI32 \div b
    ELSE IF a < 0 /\ b < 0
         THEN a # MinI32 /\ b # MinI32 /\ (0 - a) <= MaxI32 \div (0 - b)
    ELSE IF a > 0 THEN b >= (MinI32 + a - 1) \div a
    ELSE a >= (MinI32 + b - 1) \div b

\* the low 32 bits of the product of a and b
ProdLow(a, b) ==
    IF ProdInRange(a, b) THEN a * b
    ELSE Wrap(u64_mul(a, b)[3], u64_mul(a, b)[4])

\* C11, as stated: muli 741 writes the low 32 bits of a * b to r[c] and
\* signals integer overflow exactly when the product of a and b as signed
\* integers is outside -2^31 .. 2^31 - 1
C11_Muli ==
    \A i \in Steps :
        (hist[i].opc = 1857 /\ ~I64MulUB(hist[i].a, hist[i].b)) =>
            /\ hist[i].post.r[hist[i].c] = ProdLow(hist[i].a, hist[i].b)
            /\ (Detected(hist[i]) # <<>>)
                   <=> ~ProdInRange(hist[i].a, hist[i].b)

\* q is b / a truncated toward zero (a # 0): what is left of b is smaller
\* than a in magnitude and is zero or has the sign of b
IsTruncQuot(q, b, a) ==
    LET rest == b - q * a
    IN  /\ b >= 0 => rest >= 0
        /\ b <= 0 => rest <= 0
        /\ a > 0 => (0 - a < rest /\ rest < a)
        /\ a < 0 => (a < rest /\ (a = MinI32 \/ rest < 0 - a))

\* C12, as stated: divi 74B with a divisor a # 0 writes b / a truncated
\* toward zero and signals integer overflow exactly when b = INT32_MIN and
\* a = -1 (runs that the host's divide exception ended are left aside)
C12_Divi ==
    \A i \in Steps :
        (hist[i].opc = 1867 /\ hist[i].a # 0
            /\ Calls(hist[i].post.ev, "trap") = <<>>) =>
            LET a == hist[i].a
                b == hist[i].b
            IN  /\ ~I32DivUB(a, b) =>
                    IsTruncQuot(hist[i].post.r[hist[i].c], b, a)
                /\ (Detected(hist[i]) # <<>>) <=> I32DivUB(a, b)

\* x reduced modulo |a|, in 0 .. |a| - 1
ModAbs(x, a) ==
    IF a = MinI32 THEN (IF x < 0 THEN x - MinI32 ELSE x)
    ELSE x % (IF a < 0 THEN 0 - a ELSE a)

\* |x| < |a|
Smaller(x, a) ==
    IF a > 0 THEN 0 - a < x /\ x < a
    ELSE a < x /\ (a = MinI32 \/ x < 0 - a)

\* x is the remainder of b / a truncated toward zero: b = (b / a) * a + x
IsTruncRem(x, b, a) ==
    /\ ModAbs(x, a) = ModAbs(b, a)
    /\ Smaller(x, a)
    /\ b >= 0 => x >= 0
    /\ b <= 0 => x <= 0

\* C13: for a # 0 and not (b = INT32_MIN and a = -1), remi 748 writes the
\* truncating remainder x of b / a; modi 749 writes x + a when x # 0 and a
\* and b differ in sign and x otherwise, so that its result is 0 or has the
\* sign of a, is smaller than a in magnitude and is congruent to b modulo a
C13_RemiModi ==
    \A i \in Steps :
        (hist[i].opc \in {1864, 1865} /\ hist[i].a # 0
            /\ ~I32DivUB(hist[i].a, hist[i].b)) =>
            LET a == hist[i].a
                b == hist[i].b
                m == hist[i].post.r[hist[i].c]
            IN  IF hist[i].opc = 1864 THEN IsTruncRem(m, b, a)
                ELSE /\ \E x \in {m, Sub32(m, a)} :
                          /\ IsTruncRem(x, b, a)
                          /\ m = IF x # 0 /\ ((a < 0) # (b < 0))
                                 THEN Add32(x, a) ELSE x
                     /\ m = 0 \/ ((m < 0) <=> (a < 0))
                     /\ Smaller(m, a)
                     /\ ModAbs(m, a) = ModAbs(b, a)

\* modi of a negative b by a positive a that does not divide it: the
\* remainder is negative and the result is the remainder plus a
C13_Witness ==
    \E i \in Steps :
        /\ hist[i].opc = 1865
        /\ hist[i].a > 1
        /\ hist[i].b < 0
        /\ hist[i].post.r[hist[i].c] > 0
        /\ IsTruncRem(hist[i].post.r[hist[i].c] - hist[i].a,
                      hist[i].b, hist[i].a)

\* the shift count a of the signed right shifts, min(a, 31) of uint32_t
ShiftCount(a) == IF 0 <= a /\ a < 31 THEN a ELSE 31

\* q is b / 2^n rounded toward zero, 0 <= n <= 31
IsTruncShift(q, b, n) ==
    IF n = 31 THEN q = (IF b = MinI32 THEN -1 ELSE 0)
    ELSE IsTruncQuot(q, b, 2 ^ n)

\* C14, as stated: shrdi 59A writes b / 2^min(a, 31) rounded toward zero,
\* which is the arithmetic right shift of b plus 1 exactly when b is
\* negative and a shifted-off bit is non-zero
C14_Shrdi ==
    \A i \in Steps :
        hist[i].opc = 1434 =>
            LET b == hist[i].b
                n == ShiftCount(hist[i].a)
                q == hist[i].post.r[hist[i].c]
            IN  /\ IsTruncShift(q, b, n)
                /\ q = Sar32(b, n)
                         + (IF b < 0 /\ Shl32(Sar32(b, n), n) # b THEN 1 ELSE 0)

\* the mathematical value of b * 2^k, 0 <= k <= 32, lies in
\* -2^31 .. 2^31 - 1
ShiftInRange(b, k) ==
    IF b = 0 THEN TRUE
    ELSE IF k >= 31 THEN k = 31 /\ b = -1
    ELSE MinI32 \div (2 ^ k) <= b /\ b <= MaxI32 \div (2 ^ k)

\* C15: shli 59E writes the low 32 bits of b * 2^a (0 for a >= 32) and
\* signals integer overflow exactly when b * 2^a as a signed value lies
\* outside -2^31 .. 2^31 - 1
C15_Shli ==
    \A i \in Steps :
        hist[i].opc = 1438 =>
            LET a == hist[i].a
                b == hist[i].b
                k == IF 0 <= a /\ a < 32 THEN a ELSE 32
                q == hist[i].post.r[hist[i].c]
            IN  /\ q = IF k = 32 THEN 0
                       ELSE IF k = 31 /\ ShiftInRange(b, k) THEN 2 * (b * (2 ^ 30))
                       ELSE IF ShiftInRange(b, k) THEN b * (2 ^ k)
                       ELSE Shl32(b, k)
                /\ (Detected(hist[i]) # <<>>) <=> ~ShiftInRange(b, k)

\* shli by 31: 1 goes to the sign bit and overflows, -1 becomes -2^31 and
\* does not
C15_Witness ==
    \E i \in Steps :
        /\ hist[i].opc = 1438
        /\ hist[i].a = 31
        /\ hist[i].b \in {1, -1}
        /\ hist[i].post.r[hist[i].c] = MinI32
        /\ (Detected(hist[i]) # <<>>) <=> (hist[i].b = 1)

\* C16: after cmpo 5A0 the condition code is 4 if a < b, 2 if a = b and 1
\* if a > b as unsigned numbers, after cmpi 5A1 the same as signed numbers;
\* one of the three bits is set and the AC bits above bit 2 are unchanged
C16_Compare ==
    \A i \in Steps :
        hist[i].opc \in {1440, 1441} =>
            LET a  == hist[i].a
                b  == hist[i].b
                lt == IF hist[i].opc = 1441 THEN a < b
                      ELSE (IF (a < 0) = (b < 0) THEN a < b ELSE b < 0)
                cc == CC(hist[i].post.ac)
            IN  /\ cc = IF lt THEN 4 ELSE IF a = b THEN 2 ELSE 1
                /\ cc \in {1, 2, 4}
                /\ hist[i].post.ac \div 8 = hist[i].pre.ac \div 8

\* cmpo of FFFFFFFFh with a smaller number: greater as ordinals (less as
\* integers), with AC bits set above the condition code
C16_Witness ==
    \E i \in Steps :
        /\ hist[i].opc = 1440
        /\ hist[i].a = -1
        /\ hist[i].b > 0
        /\ hist[i].pre.ac \div 8 # 0
        /\ CC(hist[i].pre.ac) # 1
        /\ CC(hist[i].post.ac) = 1

\* instruction i is cmp lo, x and the next one concmp x, hi of the same
\* signedness
IsRangeCheck(i) ==
    /\ i \in Steps
    /\ i + 1 \in Steps
    /\ hist[i].opc \in {1440, 1441}
    /\ hist[i + 1].opc = hist[i].opc + 2
    /\ hist[i + 1].a = hist[i].b

\* x <= y in the ordering of cmp instruction h
CmpLe(h, x, y) ==
    IF h.opc = 1441 THEN x <= y
    ELSE x = y \/ (IF (x < 0) = (y < 0) THEN x < y ELSE y < 0)

\* C17, as stated: cmp lo, x; concmp x, hi leaves the condition code 2 if
\* lo <= x <= hi and otherwise a code with the less bit (4) set
C17_AsStated ==
    \A i \in Steps :
        IsRangeCheck(i) =>
            LET lo == hist[i].a
                x  == hist[i].b
                hi == hist[i + 1].b
                cc == CC(hist[i + 1].post.ac)
            IN  IF CmpLe(hist[i], lo, x) /\ CmpLe(hist[i], x, hi)
                THEN cc = 2
                ELSE cc \in {4, 5, 6, 7}

\* C17, amended: cmp lo, x; concmp x, hi leaves the condition code 4 if
\* lo < x, whatever hi is; if lo >= x it leaves 2 if x <= hi and 1 if x > hi
C17_RangeCheck ==
    \A i \in Steps :
        IsRangeCheck(i) =>
            LET lo == hist[i].a
                x  == hist[i].b
                hi == hist[i + 1].b
                cc == CC(hist[i + 1].post.ac)
            IN  cc = IF ~CmpLe(hist[i], x, lo) THEN 4
                     ELSE IF CmpLe(hist[i], x, hi) THEN 2
                     ELSE 1

\* lo < x <= hi, with lo above x and hi as integers: cmpo; concmpo leaves 4
\* and the conditional compare has changed nothing
C17_Witness ==
    \E i \in Steps :
        /\ IsRangeCheck(i)
        /\ hist[i].opc = 1440
        /\ hist[i].a = 1
        /\ hist[i].b = 5
        /\ hist[i + 1].b = -1
        /\ CC(hist[i + 1].post.ac) = 4
        /\ hist[i + 1].post.ac = hist[i].post.ac

\* the displacement of a COBR instruction word
CobrDisp(op) == SignedField(op, 19)

\* C18, as stated: bbc 30 and bbs 37 test bit (a mod 32) of b; if it is 0
\* for bbc or 1 for bbs the condition code becomes 2 and ip becomes
\* ip + disp, otherwise the condition code becomes 0 and ip is unchanged
C18_BitBranch ==
    \A i \in Steps :
        hist[i].opc \in {48, 55} =>
            LET p     == hist[i].pre
                q     == hist[i].post
                match == Bit(hist[i].b, hist[i].a % 32)
                             = (IF hist[i].opc = 55 THEN 1 ELSE 0)
            IN  IF match
                THEN CC(q.ac) = 2 /\ q.ip = Add32(p.ip, CobrDisp(hist[i].op))
                ELSE CC(q.ac) = 0 /\ q.ip = p.ip

\* C19, as stated: a compare-and-branch 31 .. 36, 38 .. 3F sets the
\* condition code from comparing a with b (as integers iff opcode bit 27
\* is set) and ip becomes ip + disp exactly when the condition of the
\* opcode holds of the new condition code; otherwise ip is unchanged
C19_CompareBranch ==
    \A i \in Steps :
        hist[i].opc \in (49 .. 54) \cup (56 .. 63) =>
            LET p  == hist[i].pre
                q  == hist[i].post
                a  == hist[i].a
                b  == hist[i].b
                lt == IF hist[i].opc >= 56 THEN a < b
                      ELSE (IF (a < 0) = (b < 0) THEN a < b ELSE b < 0)
            IN  /\ CC(q.ac) = IF lt THEN 4 ELSE IF a = b THEN 2 ELSE 1
                /\ q.ip = IF CondHolds(hist[i].opc % 8, CC(q.ac))
                          THEN Add32(p.ip, CobrDisp(hist[i].op))
                          ELSE p.ip

\* byte k (0 the lowest) of a word
ByteOf(x, k) == (x \div (256 ^ k)) % 256

\* C20, as stated: scanbyte 5AC sets the condition code to 2 exactly when
\* one of the four bytes of a equals the byte of b at the same place, and
\* to 0 otherwise; no register is written
C20_Scanbyte ==
    \A i \in Steps :
        hist[i].opc = 1452 =>
            LET same == \E k \in 0 .. 3 :
                            ByteOf(hist[i].a, k) = ByteOf(hist[i].b, k)
            IN  /\ CC(hist[i].post.ac) = IF same THEN 2 ELSE 0
                /\ hist[i].post.r = hist[i].pre.r

\* C21: atmod 610 and atadd 612 call the lock, read the word old at
\* a & ~3, write (old & ~b) | (r[c] & b) for atmod and old + b (mod 2^32)
\* for atadd to the same address, call the unlock and set r[c] to old; the
\* four calls are made once each, in this order
C21_Atomic ==
    \A i \in Steps :
        hist[i].opc \in {1552, 1554} =>
            LET p   == hist[i].pre
                q   == hist[i].post
                b   == hist[i].b
                c   == hist[i].c
                src == hist[i].a - (hist[i].a % 4)
                old == ReadW(p.mem, src)
                new == ReadW(q.mem, src)
            IN  /\ q.ev = << <<"lock", 0, 0>>, <<"read_w", src, old>>,
                             <<"write_w", src, new>>, <<"unlock", 0, 0>> >>
                /\ IF hist[i].opc = 1554 THEN new = Reduce(old, b)
                   ELSE \A n \in 0 .. 31 :
                            Bit(new, n) = IF Bit(b, n) = 1 THEN Bit(p.r[c], n)
                                          ELSE Bit(old, n)
                /\ q.r = [p.r EXCEPT ![c] = old]

\* atmod that changes some but not all bits of the word, at an address
\* that is not aligned
C21_Witness ==
    \E i \in Steps :
        /\ hist[i].opc = 1552
        /\ hist[i].a % 4 # 0
        /\ hist[i].b \notin {0, -1}
        /\ ReadW(hist[i].post.mem, hist[i].a - (hist[i].a % 4))
               # ReadW(hist[i].pre.mem, hist[i].a - (hist[i].a % 4))
        /\ hist[i].post.r[hist[i].c] # hist[i].pre.r[hist[i].c]
        /\ Len(hist[i].post.ev) = 4

IsReserved(h) ==
    h.opc \in (0 .. 7) \cup (12 .. 15) \cup (40 .. 47)
                 \cup {1413, 1433, 1439, 1457}

\* C23, as stated: an opcode that is no instruction reports the fault
\* 20001h and nothing else: no branch, call, compare, shift or logic
\* operation is performed
C23_Reserved ==
    \A i \in Steps :
        IsReserved(hist[i]) =>
            /\ Faults(hist[i].post.ev) = <<131073>>
            /\ hist[i].post.r = hist[i].pre.r
            /\ hist[i].post.ip = hist[i].pre.ip
            /\ hist[i].post.ac = hist[i].pre.ac
            /\ hist[i].post.mem = hist[i].pre.mem

\* x as the two's-complement integer of its low n bits
SignExtended(x, n) ==
    LET low == x % (2 ^ n) IN IF low >= 2 ^ (n - 1) THEN low - 2 ^ n ELSE low

\* C24: stib C2 passes x = r[c] to the byte write and signals integer
\* overflow exactly when x is outside -128 .. 127, stis CA passes x to the
\* short write and signals it exactly when x is outside -32768 .. 32767,
\* stob 82 and stos 8A never signal it; ldib C0 and ldis C8 write the
\* sign-extension of the byte and the short read, ldob 80 and ldos 88 the
\* zero-extension
C24_LoadStore ==
    \A i \in Steps :
        LET h   == hist[i]
            x   == h.pre.r[h.c]
            b0  == MemByte(h.pre.mem, h.efa)
            b1  == MemByte(h.pre.mem, h.efa + 1)
            got == h.post.r[h.c]
        IN  /\ h.opc = 194 =>
                  /\ Writes(h.post.ev) = << <<"write_b", h.efa, x>> >>
                  /\ (Detected(h) # <<>>) <=> x \notin -128 .. 127
            /\ h.opc = 202 =>
                  /\ Writes(h.post.ev) = << <<"write_s", h.efa, x>> >>
                  /\ (Detected(h) # <<>>) <=> x \notin -32768 .. 32767
            /\ h.opc \in {130, 138} => Detected(h) = <<>>
            /\ h.opc = 192 => got = SignExtended(b0, 8)
            /\ h.opc = 200 => got = SignExtended(b0 + 256 * b1, 16)
            /\ h.opc = 128 => got = b0
            /\ h.opc = 136 => got = b0 + 256 * b1

\* a program that stores -129 with stib, which signals overflow and writes
\* the byte 7Fh, and reads the byte back with ldib as 127; and ldib of a
\* byte with its top bit set
C24_Witness ==
    /\ Len(hist) = 2
    /\ hist[1].opc = 194 /\ hist[1].pre.r[hist[1].c] = -129
    /\ Detected(hist[1]) # <<>>
    /\ hist[2].opc = 192 /\ hist[2].efa = hist[1].efa
    /\ hist[2].post.r[hist[2].c] = 127

\* the exact sum x + y + cin of two 32-bit words and a carry, with x and y
\* read as unsigned: <<the sum mod 2^32, the carry out of bit 31>>
CarrySum(x, y, cin) ==
    LET low  == Lo(x) + Lo(y) + cin
        high == (Hi(x) % Half) + (Hi(y) % Half) + (low \div Half)
    IN  <<Wrap(high % Half, low % Half), high \div Half>>

\* x + y + cin with x and y read as signed is outside the int32_t range
SignedSumOverflows(x, y, cin) ==
    LET low  == Lo(x) + Lo(y) + cin
        high == Hi(x) + Hi(y) + (low \div Half)
    IN  high \notin -32768 .. 32767

\* C25: with cin = AC bit 1, addc 5B0 writes b + a + cin and subc 5B2
\* writes b + ~a + cin (mod 2^32) to r[c], and both leave the condition
\* code 2 * carry + v, carry the carry out of bit 31 of that sum and v = 1
\* exactly when the signed result overflowed
C25_AddcSubc ==
    \A i \in Steps :
        hist[i].opc \in {1456, 1458} =>
            LET cin == Bit(hist[i].pre.ac, 1)
                x   == IF hist[i].opc = 1458 THEN Not32(hist[i].a)
                       ELSE hist[i].a
                sum == CarrySum(hist[i].b, x, cin)
                v   == IF SignedSumOverflows(hist[i].b, x, cin) THEN 1 ELSE 0
            IN  /\ hist[i].post.r[hist[i].c] = sum[1]
                /\ CC(hist[i].post.ac) = 2 * sum[2] + v

\* the low n bits of the word x, n in 0 .. 31
LowBits(x, n) ==
    IF n = 31 THEN (IF x < 0 THEN x - MinI32 ELSE x) ELSE x % (2 ^ n)

\* C26: extract 651 with position a and length b leaves in r[c] the low b
\* bits of (old r[c] >> (a mod 32)) when b < 32 and the whole shifted value
\* when b >= 32 (b an ordinal)
C26_Extract ==
    \A i \in Steps :
        hist[i].opc = 1617 =>
            LET old     == hist[i].pre.r[hist[i].c]
                shifted == Shr32(old, hist[i].a % 32)
                b       == hist[i].b
            IN  hist[i].post.r[hist[i].c] =
                    IF b \in 0 .. 31 THEN LowBits(shifted, b) ELSE shifted

\* the encodings the disassembler has no instruction for: no entry in the
\* table of the format, a CTRL word with bit 0 set, a MEM word of mode 6
NotRecognised(op) ==
    LET line == u32_extract(op, 28, 4)
    IN  IF line >= 8
        THEN tabent(mem_map, u32_extract(op, 24, 7)).name = ""
                 \/ u32_extract(op, 10, 4) = 6
        ELSE IF line >= 4
        THEN tabent(reg_map, 16 * u32_extract(op, 24, 6)
                                 + u32_extract(op, 7, 4)).name = ""
        ELSE IF line >= 2
        THEN tabent(cobr_map, u32_extract(op, 24, 5)).name = ""
        ELSE tabent(ctrl_map, u32_extract(op, 24, 5)).name = ""
                 \/ u32_bit_select(op, 0) = 1

\* C27: for an encoding that is not recognised the text is the directive
\* .word, a separator and the word as 0x%08x, and more than that (a second
\* word) only when the length returned is 8; the length returned is 4 for
\* every CTRL, COBR and REG word
C27_Inval ==
    \A n \in DOMAIN listing :
        /\ NotRecognised(listing[n].op) =>
              /\ SubSeq(listing[n].text, 1, 5) = ".word"
              /\ SubSeq(listing[n].text, 7, 16) = "0x" \o Hex8(listing[n].op)
              /\ Len(listing[n].text) > 16 => listing[n].len = 8
        /\ u32_extract(listing[n].op, 28, 4) < 8 => listing[n].len = 4

\* C28: from a state in user mode (pc bit 1 clear) no sequence of
\* instructions changes pc: after instruction i and after every instruction
\* that follows it pc is what it was before i
C28_NoEscalation ==
    \A i \in Steps :
        Bit(hist[i].pre.pc, I960_EM_POS) = 0 =>
            /\ \A j \in Steps : j >= i => hist[j].post.pc = hist[i].pre.pc
            /\ pc = hist[i].pre.pc

\* a program in user mode: modpc with the mask 2 and bit 1 of r[c] set,
\* which would set the execution mode bit, and an instruction after it
C28_Witness ==
    /\ Len(hist) = 2
    /\ hist[1].opc = 1621
    /\ hist[1].b = 2
    /\ Bit(hist[1].pre.pc, I960_EM_POS) = 0
    /\ Bit(hist[1].pre.r[hist[1].c], I960_EM_POS) = 1
    /\ hist[2].opc # 1621
    /\ Bit(pc, I960_EM_POS) = 0

====
